---------------------------- MODULE Spec2Model ----------------------------
(***************************************************************************)
(* The dataset analysis pipeline of the analytics engine:                  *)
(*   backend/app.py            upload_file, get_analysis_engine            *)
(*   analytics_engine/analysis_engine.py   AnalysisEngine                  *)
(*   analytics_engine/data_loader.py       load_dataset                    *)
(*   analytics_engine/data_cleaner.py      clean_data                      *)
(*   analytics_engine/data_summary.py      DataSummary                     *)
(*   analytics_engine/insights_generator.py InsightsGenerator              *)
(*                                                                         *)
(* A DataFrame is a record                                                 *)
(*   [cols, dtype, scale, rows]                                            *)
(* cols is the sequence of column names, dtype[c] the pandas dtype of      *)
(* column c, and rows a set of row groups [vals, na, mult]: mult rows with *)
(* the cell values vals[c], the cells of the columns in na being NaN.  No  *)
(* analyzer depends on the order of the rows, so equal rows are kept as    *)
(* one group with a multiplicity.  The value of a cell is the rational     *)
(* vals[c] / scale[c]; scale[c] is 1 until clean_data fills a gap with a   *)
(* column mean.  Floating-point results are modelled by exact rationals    *)
(* <<numerator, denominator>> with a positive denominator.                 *)
(***************************************************************************)
EXTENDS Integers, Sequences, FiniteSets, TLC

VARIABLES
    entry,       \* how the code is entered: "upload" or "direct"
    file,        \* the uploaded file, or the frame a direct caller holds
    df,          \* the DataFrame in hand (NoFrame for None)
    pc,          \* position in the pipeline
    components,  \* AnalysisEngine._components_initialized
    schema,      \* result of _analyze_schema
    statistics,  \* the summary under construction / returned by generate_summary
    faulty,      \* the computation that raises on this dataset: <<analyzer, column>> or <<>>
    caught,      \* the columns skipped by the except clauses of _descriptive_statistics
    raised,      \* the exception that left the pipeline: "" for none
    insights,    \* result of generate_insights
    outcome,     \* how analyze_dataset / the direct call sequence ended
    response,    \* what upload_file answers
    run,         \* number of the current run on this dataset: 1 or 2
    first        \* what the first run on this dataset produced

VARIABLES
    analysis_engine,  \* the global of backend/app.py: 0 for None, else an engine
    engines,          \* the AnalysisEngine objects constructed so far, with their attributes
    threads           \* the request threads of the server

\* the state of one run of the pipeline
pipeline == <<entry, file, df, pc, components, schema, statistics, faulty, caught, raised,
              insights, outcome, response, run, first>>

\* the state the threads of the server share, and their own
server == <<analysis_engine, engines, threads>>

vars == <<pipeline, server>>

----------------------------------------------------------------------------
(* Bounds of the model *)

\* most row groups of a generated frame
MaxRowGroups == 2
\* most values a generated long column has over SampleCap
MaxOverCap == 10
\* most concurrent requests
MaxRequests == 2

\* the cap of the sample handed to the normality test (data_summary.py)
SampleCap == 5000

----------------------------------------------------------------------------
(* Generic helpers *)

Range(s) == {s[i] : i \in DOMAIN s}

Abs(x) == IF x < 0 THEN -x ELSE x

Max2(x, y) == IF x >= y THEN x ELSE y

Min2(x, y) == IF x <= y THEN x ELSE y

\* the first n elements of a sequence: the Python slice s[:n]
Take(s, n) == SubSeq(s, 1, Min2(n, Len(s)))

\* a / b < c / d for a, c >= 0 and b, d > 0, by the integer parts and then
\* the remainders, so that no product leaves the 32-bit integers of TLC
RECURSIVE FracLt(_, _, _, _)
FracLt(a, b, c, d) ==
    IF a \div b # c \div d THEN a \div b < c \div d
    ELSE IF c % d = 0 THEN FALSE
    ELSE IF a % b = 0 THEN TRUE
    ELSE FracLt(d, c % d, b, a % b)

\* rationals <<n, d>>, d > 0
RatLt(p, q) ==
    IF p[1] < 0
    THEN q[1] >= 0 \/ FracLt(-q[1], q[2], -p[1], p[2])
    ELSE q[1] >= 0 /\ FracLt(p[1], p[2], q[1], q[2])

RatEq(p, q) == ~RatLt(p, q) /\ ~RatLt(q, p)

RatAbs(p) == <<Abs(p[1]), p[2]>>

RatSub(p, q) == <<p[1] * q[2] - q[1] * p[2], p[2] * q[2]>>

RatMax(p, q) == IF RatLt(p, q) THEN q ELSE p

----------------------------------------------------------------------------
(* DataFrames *)

NoFrame == [cols |-> <<>>, dtype |-> <<>>, scale |-> <<>>, rows |-> {}, none |-> TRUE]

IsNone(f) == f.none

Columns(f) == Range(f.cols)

\* len(df)
RECURSIVE NumRows(_)
NumRows(S) ==
    IF S = {} THEN 0
    ELSE LET r == CHOOSE x \in S : TRUE
         IN  r.mult + NumRows(S \ {r})

\* df.empty: no rows or no columns
IsEmpty(f) == Len(f.cols) = 0 \/ NumRows(f.rows) = 0

\* the row groups whose cell in column c is not NaN: df[c].dropna()
NotNull(S, c) == {r \in S : c \notin r.na}

\* sum over the rows of S of vals[c]^k, k in 0..2 (k = 0 counts the rows)
RECURSIVE Moment(_, _, _)
Moment(S, c, k) ==
    IF S = {} THEN 0
    ELSE LET r == CHOOSE x \in S : TRUE
             t == IF k = 0 THEN 1
                  ELSE IF k = 1 THEN r.vals[c]
                  ELSE r.vals[c] * r.vals[c]
         IN  r.mult * t + Moment(S \ {r}, c, k)

\* sum over the rows of S of vals[c] * vals[d]
RECURSIVE CoMoment(_, _, _)
CoMoment(S, c, d) ==
    IF S = {} THEN 0
    ELSE LET r == CHOOSE x \in S : TRUE
         IN  r.mult * r.vals[c] * r.vals[d] + CoMoment(S \ {r}, c, d)

\* len(df[c].dropna())
Count(f, c) == Moment(NotNull(f.rows, c), c, 0)

\* df[c].isnull().sum()
NullCount(f, c) == NumRows(f.rows \ NotNull(f.rows, c))

\* the distinct non-null values of column c
Distinct(S, c) == {r.vals[c] : r \in NotNull(S, c)}

\* df[c].nunique()
NUnique(f, c) == Cardinality(Distinct(f.rows, c))

\* number of non-null cells of column c with the value v
Freq(S, c, v) == NumRows({r \in NotNull(S, c) : r.vals[c] = v})

\* df[c].mode(): the most frequent values; mode()[0] is the least of them
Modes(S, c) ==
    {v \in Distinct(S, c) : \A w \in Distinct(S, c) : Freq(S, c, w) <= Freq(S, c, v)}

Mode0(S, c) == CHOOSE v \in Modes(S, c) : \A w \in Modes(S, c) : v <= w

\* the k-th smallest (k = 0 first) non-null value of column c
Kth(S, c, k) ==
    CHOOSE v \in Distinct(S, c) :
        /\ NumRows({r \in NotNull(S, c) : r.vals[c] < v}) <= k
        /\ k < NumRows({r \in NotNull(S, c) : r.vals[c] <= v})

\* 4 * quantile(q4 / 4) of column c in units of the stored values, by the
\* linear interpolation pandas uses: position q * (n - 1) between the order
\* statistics below and above it
Quantile4(S, c, q4) ==
    LET n   == Moment(NotNull(S, c), c, 0)
        pos == q4 * (n - 1)
        lo  == pos \div 4
        rem == pos % 4
        hi  == IF rem = 0 THEN lo ELSE lo + 1
    IN  4 * Kth(S, c, lo) + rem * (Kth(S, c, hi) - Kth(S, c, lo))

----------------------------------------------------------------------------
(* The frames the model draws its datasets from *)

Dtypes == {"float64", "object", "bool", "datetime64", "category"}

\* the sets of at most n elements of K
RECURSIVE UpTo(_, _)
UpTo(K, n) ==
    IF n = 0 THEN {{}}
    ELSE LET P == UpTo(K, n - 1)
         IN  P \cup {T \cup {x} : T \in P, x \in K}

\* the distinct rows over the columns C, column c with values in V[c]; only
\* the columns of nullable can hold NaN, and a NaN cell is stored with the
\* value 0
RowKeys(C, V, nullable) ==
    {[vals |-> [c \in C |-> IF c \in n THEN 0 ELSE v[c]], na |-> n] :
        v \in {w \in [C -> UNION {V[c] : c \in C}] : \A c \in C : w[c] \in V[c]},
        n \in SUBSET nullable}

\* the frames with the columns cols of the dtypes dt, at most maxg distinct
\* rows, each repeated a number of times in M; a bool column holds no NaN
Frames(cols, dt, V, M, maxg) ==
    LET C    == Range(cols)
        keys == RowKeys(C, V, {c \in C : dt[c] # "bool"})
    IN  {[cols |-> cols, dtype |-> dt, scale |-> [c \in C |-> 1],
          rows |-> {[vals |-> k.vals, na |-> k.na, mult |-> g[k]] : k \in DOMAIN g},
          none |-> FALSE] :
            g \in UNION {[S -> M] : S \in UpTo(keys, maxg)}}

\* a numeric column beside a column of every dtype
MixedFrames ==
    UNION {Frames(<<"a", "b">>, [a |-> "float64", b |-> d], [a |-> {1}, b |-> {1, 2}],
                  {1, 3}, MaxRowGroups) : d \in Dtypes}

\* three numeric columns without gaps
NumericFrames ==
    LET F == Frames(<<"a", "b", "c">>, [a |-> "float64", b |-> "float64", c |-> "float64"],
                    [a |-> {0, 1}, b |-> {0, 1}, c |-> {0, 1}], {1}, MaxRowGroups)
    IN  {f \in F : \A r \in f.rows : r.na = {}}

\* two numeric 0/1 columns without gaps: a 2 x 2 table of counts
TableFrames ==
    LET F == Frames(<<"a", "b">>, [a |-> "float64", b |-> "float64"],
                    [a |-> {0, 1}, b |-> {0, 1}], {1, 3, 4, 7}, MaxRowGroups + 1)
    IN  {f \in F : \A r \in f.rows : r.na = {}}

\* long columns, the first with gaps
LongFrames ==
    {f \in Frames(<<"a", "b">>, [a |-> "float64", b |-> "float64"], [a |-> {1}, b |-> {1}],
                  {1, 3, 7, 9, 10}, MaxRowGroups) :
        \A r \in f.rows : "b" \notin r.na}
    \cup {f \in Frames(<<"a">>, [a |-> "float64"], [a |-> {1, 2}],
                       {1, MaxOverCap, SampleCap}, MaxRowGroups) :
             NumRows(f.rows) <= SampleCap + MaxOverCap}

\* two numeric 0/1 columns, the second with gaps
GapFrames ==
    {f \in Frames(<<"a", "b">>, [a |-> "float64", b |-> "float64"],
                  [a |-> {0, 1}, b |-> {0, 1}], {1}, MaxRowGroups + 1) :
        \A r \in f.rows : "a" \notin r.na}

\* the frame with the columns cols of the dtypes dt and the rows rs, a
\* sequence of [vals, na]: equal rows form one group
FrameOfRows(cols, dt, rs) ==
    [cols |-> cols, dtype |-> dt, scale |-> [c \in Range(cols) |-> 1],
     rows |-> {[vals |-> k.vals, na |-> k.na,
                mult |-> Cardinality({i \in DOMAIN rs : rs[i] = k})] : k \in Range(rs)},
     none |-> FALSE]

\* one numeric column holding the values of s
SeriesFrame(s) ==
    FrameOfRows(<<"a">>, [a |-> "float64"], [i \in DOMAIN s |-> [vals |-> [a |-> s[i]], na |-> {}]])

\* single columns of several distinct values, one of them far from the rest
SeriesFrames ==
    {SeriesFrame(s) : s \in {<<10, 12, 12, 13, 12, 11, 14, 200>>, <<1, 2, 3, 4, 5>>,
                             <<0, 1, 1, 2>>, <<0, 0, 1, 4, 4>>, <<-1, 1>>, <<-3, 0, 3>>,
                             [i \in 1..20 |-> IF i = 20 THEN 1 ELSE 0]}}

\* one object column holding each of k values three times, k at and just
\* below the limit of the categorical heuristic
CategoryFrames ==
    {[cols |-> <<"b">>, dtype |-> [b |-> "object"], scale |-> [b |-> 1],
      rows |-> {[vals |-> [b |-> v], na |-> {}, mult |-> 3] : v \in 1..k},
      none |-> FALSE] : k \in {49, 50}}

\* one numeric column of at most three values without gaps, in several
\* shapes
ShapeFrames ==
    {f \in Frames(<<"a">>, [a |-> "float64"], [a |-> {0, 1, 2}], {1, 3, 9}, 3) :
        \A r \in f.rows : r.na = {}}

\* four numeric columns, the last three equal and the first differing from
\* them in one row of nine: six strongly correlated pairs
CorrelatedFrames ==
    LET row(a, b) == [vals |-> [c \in {"a", "b", "c", "d"} |-> IF c = "a" THEN a ELSE b],
                      na |-> {}]
    IN  {FrameOfRows(<<"a", "b", "c", "d">>,
                     [c \in {"a", "b", "c", "d"} |-> "float64"],
                     <<row(0, 0), row(0, 0), row(0, 0), row(0, 0),
                       row(1, 1), row(1, 1), row(1, 1), row(1, 1), row(1, 0)>>)}

\* six numeric columns beside four object columns of one repeated value,
\* three or five rows
WideFrames ==
    LET num == {"n1", "n2", "n3", "n4", "n5", "n6"}
        cat == {"k1", "k2", "k3", "k4"}
        row(v) == [vals |-> [c \in num \cup cat |-> IF c \in num THEN v ELSE 1], na |-> {}]
    IN  {FrameOfRows(<<"n1", "n2", "n3", "n4", "n5", "n6", "k1", "k2", "k3", "k4">>,
                     [c \in num \cup cat |-> IF c \in num THEN "float64" ELSE "object"],
                     rs) :
            rs \in {<<row(0), row(0), row(1)>>, <<row(0), row(0), row(0), row(0), row(1)>>}}

\* a numeric column beside a numeric column named 'summary', with gaps
SummaryFrames ==
    Frames(<<"a", "summary">>, [a |-> "float64", summary |-> "float64"],
           [a |-> {1}, summary |-> {1, 2}], {1}, MaxRowGroups)

\* the frames of uploaded files: clean_data leaves one row of every group
UploadFrames == MixedFrames \cup NumericFrames

DataFrames ==
    MixedFrames \cup NumericFrames \cup TableFrames \cup LongFrames \cup GapFrames
        \cup SeriesFrames \cup CategoryFrames \cup ShapeFrames \cup CorrelatedFrames
        \cup WideFrames \cup SummaryFrames

----------------------------------------------------------------------------
(* data_loader.load_dataset and data_cleaner.clean_data *)

\* the row groups of S after every row r was changed to g[r]: rows that
\* became equal form one group
MapRows(S, g) ==
    LET keys == {g[r] : r \in S}
    IN  {[vals |-> k.vals, na |-> k.na,
          mult |-> NumRows({r \in S : g[r] = k})] : k \in keys}

\* df.dropna(how='all', axis=1) then df.dropna(how='all', axis=0)
DropEmpty(f) ==
    LET keep   == SelectSeq(f.cols, LAMBDA c : Count(f, c) > 0)
        C      == Range(keep)
        Cut(r) == [vals |-> [c \in C |-> r.vals[c]], na |-> r.na \cap C]
        rows   == MapRows(f.rows, [r \in f.rows |-> Cut(r)])
    IN  [cols |-> keep,
         dtype |-> [c \in C |-> f.dtype[c]],
         scale |-> [c \in C |-> f.scale[c]],
         rows |-> {r \in rows : r.na # C},
         none |-> FALSE]

\* load_dataset: None when the file cannot be read, else the frame without
\* its all-empty columns and rows.  The column names of the model are
\* already stripped and unique.
load_dataset(fl) ==
    IF ~fl.readable THEN NoFrame ELSE DropEmpty(fl.frame)

\* select_dtypes(include=np.number)
IsNumberDtype(d) == d = "float64"

\* the cleaning that fills the numeric columns only: duplicate rows dropped,
\* the gaps of a numeric column filled with its mean, other gaps kept
clean_data_numeric_only(f) ==
    LET C       == Columns(f)
        dedup   == {[vals |-> r.vals, na |-> r.na, mult |-> 1] : r \in f.rows}
        n(c)    == Moment(NotNull(dedup, c), c, 0)
        gaps(c) == NotNull(dedup, c) # dedup
        byMean(c) == IsNumberDtype(f.dtype[c]) /\ gaps(c) /\ n(c) > 0
        Fill(r) ==
            [vals |-> [c \in C |->
                         IF byMean(c)
                         THEN IF c \in r.na THEN Moment(NotNull(dedup, c), c, 1)
                              ELSE r.vals[c] * n(c)
                         ELSE r.vals[c]],
             na |-> {c \in r.na : ~byMean(c)}]
    IN  [cols |-> f.cols,
         dtype |-> f.dtype,
         scale |-> [c \in C |-> IF byMean(c) THEN f.scale[c] * n(c) ELSE f.scale[c]],
         rows |-> MapRows(dedup, [r \in dedup |-> Fill(r)]),
         none |-> FALSE]

\* clean_data: drop duplicate rows, fill the gaps of a numeric column with
\* its mean and those of any other column with its first mode
clean_data(f) ==
    LET C       == Columns(f)
        dedup   == {[vals |-> r.vals, na |-> r.na, mult |-> 1] : r \in f.rows}
        n(c)    == Moment(NotNull(dedup, c), c, 0)
        gaps(c) == NotNull(dedup, c) # dedup
        \* a numeric column with gaps and data is rescaled by its count, so
        \* that the mean sum / n is the integer sum
        byMean(c) == IsNumberDtype(f.dtype[c]) /\ gaps(c) /\ n(c) > 0
        byMode(c) == ~IsNumberDtype(f.dtype[c]) /\ gaps(c) /\ Modes(dedup, c) # {}
        Fill(r) ==
            [vals |-> [c \in C |->
                         IF byMean(c)
                         THEN IF c \in r.na THEN Moment(NotNull(dedup, c), c, 1)
                              ELSE r.vals[c] * n(c)
                         ELSE IF byMode(c) /\ c \in r.na THEN Mode0(dedup, c)
                         ELSE r.vals[c]],
             na |-> {c \in r.na : ~byMean(c) /\ ~byMode(c)}]
    IN  [cols |-> f.cols,
         dtype |-> f.dtype,
         scale |-> [c \in C |-> IF byMean(c) THEN f.scale[c] * n(c) ELSE f.scale[c]],
         rows |-> MapRows(dedup, [r \in dedup |-> Fill(r)]),
         none |-> FALSE]

----------------------------------------------------------------------------
(* AnalysisEngine._analyze_schema *)

\* distinct < 50 of the categorical heuristic
MaxCategories == 50

\* the kind of a column with distinct <= 50 letting an object column be
\* categorical
ColumnKindInclusive(f, c) ==
    IF f.dtype[c] = "datetime64" THEN "datetime"
    ELSE IF f.dtype[c] = "bool" THEN "boolean"
    ELSE IF f.dtype[c] = "float64" THEN "numeric"
    ELSE IF f.dtype[c] = "object"
         THEN IF 2 * NUnique(f, c) < NumRows(f.rows) /\ NUnique(f, c) <= MaxCategories
              THEN "categorical" ELSE "text"
    ELSE "categorical"

\* the kind of column c, by the first matching test
ColumnKind(f, c) ==
    IF f.dtype[c] = "datetime64" THEN "datetime"
    ELSE IF f.dtype[c] = "bool" THEN "boolean"
    ELSE IF f.dtype[c] = "float64" THEN "numeric"
    ELSE IF f.dtype[c] = "object"
         THEN \* unique_ratio = nunique / len(col) < 0.5
              IF 2 * NUnique(f, c) < NumRows(f.rows) /\ NUnique(f, c) < MaxCategories
              THEN "categorical" ELSE "text"
    ELSE "categorical"

OfKind(f, k) == SelectSeq(f.cols, LAMBDA c : ColumnKind(f, c) = k)

\* an object column of a frame without rows divides by zero
SchemaRaises(f) ==
    \E c \in Columns(f) : f.dtype[c] = "object" /\ NumRows(f.rows) = 0

analyze_schema(f) ==
    [numeric_columns     |-> OfKind(f, "numeric"),
     categorical_columns |-> OfKind(f, "categorical"),
     datetime_columns    |-> OfKind(f, "datetime"),
     text_columns        |-> OfKind(f, "text"),
     boolean_columns     |-> OfKind(f, "boolean"),
     summary |-> [numeric     |-> Len(OfKind(f, "numeric")),
                  categorical |-> Len(OfKind(f, "categorical")),
                  datetime    |-> Len(OfKind(f, "datetime")),
                  text        |-> Len(OfKind(f, "text")),
                  boolean     |-> Len(OfKind(f, "boolean"))]]

----------------------------------------------------------------------------
(* DataSummary: the five analyzers *)

\* the keys of the summary generate_summary returns
Profiles == {"descriptive_stats", "correlations", "distributions", "missing_data", "outliers"}

\* the empty dict {}
EmptyDict == <<>>

\* the statistics of a numeric column with the variance of the population
\* (ddof = 0) in place of the sample variance
NumericStatsPopulation(f, c) ==
    LET S == NotNull(f.rows, c)
        n == Moment(S, c, 0)
        s == Moment(S, c, 1)
        k == f.scale[c]
    IN  [count  |-> n,
         mean   |-> <<s, n * k>>,
         median |-> <<Quantile4(S, c, 2), 4 * k>>,
         mode   |-> <<Mode0(S, c), k>>,
         var    |-> IF n > 1 THEN <<n * Moment(S, c, 2) - s * s, n * n * k * k>>
                    ELSE <<0, 1>>,
         min    |-> <<Kth(S, c, 0), k>>,
         max    |-> <<Kth(S, c, n - 1), k>>,
         q25    |-> <<Quantile4(S, c, 1), 4 * k>>,
         q75    |-> <<Quantile4(S, c, 3), 4 * k>>,
         iqr    |-> <<Quantile4(S, c, 3) - Quantile4(S, c, 1), 4 * k>>]

\* descriptive statistics of the numeric column c (lines 53-67); std is the
\* square root of var, skewness and kurtosis are not part of the model
NumericStats(f, c) ==
    LET S == NotNull(f.rows, c)
        n == Moment(S, c, 0)
        s == Moment(S, c, 1)
        k == f.scale[c]
    IN  [count  |-> n,
         mean   |-> <<s, n * k>>,
         median |-> <<Quantile4(S, c, 2), 4 * k>>,
         mode   |-> <<Mode0(S, c), k>>,
         var    |-> IF n > 1 THEN <<n * Moment(S, c, 2) - s * s, n * (n - 1) * k * k>>
                    ELSE <<0, 1>>,
         min    |-> <<Kth(S, c, 0), k>>,
         max    |-> <<Kth(S, c, n - 1), k>>,
         q25    |-> <<Quantile4(S, c, 1), 4 * k>>,
         q75    |-> <<Quantile4(S, c, 3), 4 * k>>,
         iqr    |-> <<Quantile4(S, c, 3) - Quantile4(S, c, 1), 4 * k>>]

\* statistics of the categorical column c (lines 78-85); value_counts()
\* lists equally frequent values by their value
CategoricalStats(f, c) ==
    LET S == NotNull(f.rows, c)
    IN  [count               |-> Moment(S, c, 0),
         unique_count        |-> Cardinality(Distinct(S, c)),
         most_frequent       |-> Mode0(S, c),
         most_frequent_count |-> Freq(S, c, Mode0(S, c))]

\* _descriptive_statistics asking for more than one value (the guard of std
\* and var) instead of len(col_data) > 0
descriptive_statistics_two_values(f, sch, bad) ==
    LET num  == {c \in Range(sch.numeric_columns) :
                    c \in Columns(f) /\ Count(f, c) > 1 /\ c \notin bad}
        cat  == {c \in Range(sch.categorical_columns) :
                    c \in Columns(f) /\ Count(f, c) > 1 /\ c \notin bad}
    IN  [c \in num \cup cat |->
            IF c \in cat THEN CategoricalStats(f, c) ELSE NumericStats(f, c)]

\* _descriptive_statistics: an entry for every numeric and categorical column
\* that is in the frame and has data; a column whose computation raises (the
\* columns of bad) is skipped by the except clause
descriptive_statistics(f, sch, bad) ==
    LET num  == {c \in Range(sch.numeric_columns) :
                    c \in Columns(f) /\ Count(f, c) > 0 /\ c \notin bad}
        cat  == {c \in Range(sch.categorical_columns) :
                    c \in Columns(f) /\ Count(f, c) > 0 /\ c \notin bad}
    IN  [c \in num \cup cat |->
            IF c \in cat THEN CategoricalStats(f, c) ELSE NumericStats(f, c)]

\* a correlation coefficient num / sqrt(vx * vy) over the rows S, kept as
\* its numerator and the two factors of the square of its denominator; NaN
\* when a variance is 0 or no row is left
Coefficient(S, A, B) ==
    LET n   == Moment(S, A, 0)
        cxy == n * CoMoment(S, A, B) - Moment(S, A, 1) * Moment(S, B, 1)
        vx  == n * Moment(S, A, 2) - Moment(S, A, 1) * Moment(S, A, 1)
        vy  == n * Moment(S, B, 2) - Moment(S, B, 1) * Moment(S, B, 1)
    IN  IF vx = 0 \/ vy = 0 THEN [nan |-> TRUE, num |-> 0, vx |-> 0, vy |-> 0]
        ELSE [nan |-> FALSE, num |-> cxy, vx |-> vx, vy |-> vy]

\* the rows in which both columns hold a value
Complete(S, A, B) == NotNull(NotNull(S, A), B)

\* DataFrame.corr(method='pearson'): pairwise complete observations
Pearson(f, A, B) == Coefficient(Complete(f.rows, A, B), A, B)

\* DataFrame.corr(method='spearman'): Pearson's coefficient of the ranks,
\* here twice the average rank of each value among the complete rows
Spearman(f, A, B) ==
    LET S == Complete(f.rows, A, B)
        Rank2(c, v) == 2 * NumRows({r \in S : r.vals[c] < v})
                       + NumRows({r \in S : r.vals[c] = v}) + 1
        Rk(r) == [vals |-> [c \in {A, B} |-> Rank2(c, r.vals[c])], na |-> {}]
    IN  Coefficient(MapRows(S, [r \in S |-> Rk(r)]), A, B)

\* abs(r) > t / 10, that is 100 num^2 > t^2 vx vy; False for NaN
AbsAbove(r, t) ==
    /\ ~r.nan
    /\ r.num # 0
    /\ RatLt(<<t * t * r.vx, Abs(r.num)>>, <<100 * Abs(r.num), r.vy>>)

\* abs(corr_value) >= 0.7
IsStrongPairInclusive(r) ==
    /\ ~r.nan
    /\ r.num # 0
    /\ ~RatLt(<<100 * Abs(r.num), r.vy>>, <<49 * r.vx, Abs(r.num)>>)

\* abs(corr_value) > 0.7
IsStrongPair(r) == AbsAbove(r, 7)

\* 'strong' if abs(corr_value) > 0.8 else 'moderate'
Strength(r) == IF AbsAbove(r, 8) THEN "strong" ELSE "moderate"

\* the pairs (i, j) of the two nested enumerate loops, in loop order
LoopPairs(n) == [k \in 1..(n * n) |-> <<((k - 1) \div n) + 1, ((k - 1) % n) + 1>>]

\* the test of line 112 as i != j, which leaves out the self-pairs only
PairKeptNoSelf(p) == p[1] # p[2]

\* the test of line 112
PairKept(p) == p[1] < p[2]

StrongCorrelations(f, cols) ==
    LET kept == SelectSeq(LoopPairs(Len(cols)),
                          LAMBDA p : PairKept(p) /\ IsStrongPair(Pearson(f, cols[p[1]], cols[p[2]])))
    IN  [k \in 1..Len(kept) |->
            [column1     |-> cols[kept[k][1]],
             column2     |-> cols[kept[k][2]],
             correlation |-> Pearson(f, cols[kept[k][1]], cols[kept[k][2]]),
             strength    |-> Strength(Pearson(f, cols[kept[k][1]], cols[kept[k][2]]))]]

\* _correlation_analysis: empty unless there are two numeric columns
correlation_analysis(f, sch) ==
    LET cols == sch.numeric_columns
        N    == Range(cols)
    IN  IF Len(cols) > 1
        THEN [pearson  |-> [A \in N |-> [B \in N |-> Pearson(f, A, B)]],
              spearman |-> [A \in N |-> [B \in N |-> Spearman(f, A, B)]],
              strong_correlations |-> StrongCorrelations(f, cols)]
        ELSE EmptyDict

\* len(col_data) > 10 of the distribution analysis
MinDistributionCount == 10

\* the numeric columns the distribution analysis looks at
DistributionColumns(f, sch) ==
    {c \in Range(sch.numeric_columns) : Count(f, c) > MinDistributionCount}

RECURSIVE SumFn(_)
SumFn(g) ==
    IF DOMAIN g = {} THEN 0
    ELSE LET v == CHOOSE x \in DOMAIN g : TRUE
         IN  g[v] + SumFn([w \in DOMAIN g \ {v} |-> g[w]])

\* col_data.sample(min(5000, len(col_data))): the possible samples, each the
\* number of times every value was drawn.  Sampling is without replacement
\* and unseeded: any len - min(5000, len) values may be the ones left out.
Samples(f, c) ==
    LET S    == NotNull(f.rows, c)
        D    == Distinct(S, c)
        n    == Moment(S, c, 0)
        out  == n - Min2(SampleCap, n)
        left == {o \in [D -> 0..out] :
                    SumFn(o) = out /\ \A v \in D : o[v] <= Freq(S, c, v)}
    IN  {[v \in {w \in D : Freq(S, c, w) > o[w]} |-> Freq(S, c, v) - o[v]] : o \in left}

\* scipy.stats.shapiro decides on the sample alone whatever its order; the
\* statistic and the p-value are kept as the sample they are computed from.
\* A sample of one repeated value has range zero and gets statistic 1 and
\* p-value 1; a sample of more than 10 observations of two values gets a
\* p-value far below 0.05.  The long columns of the model hold at most two
\* distinct values.
IsNormal(smp) == Cardinality(DOMAIN smp) = 1

\* the least k with 2^k >= n: ceil(log2(n))
RECURSIVE CeilLog2(_)
CeilLog2(n) == IF n <= 1 THEN 0 ELSE 1 + CeilLog2((n + 1) \div 2)

\* the greatest k with 2^k <= n: floor(log2(n))
RECURSIVE FloorLog2(_)
FloorLog2(n) == IF n <= 1 THEN 0 ELSE 1 + FloorLog2(n \div 2)

\* the bin count with the logarithm rounded down: floor(log2(n)) + 1
calculate_optimal_bins_rounding_down(n) == Max2(5, Min2(FloorLog2(n) + 1, 50))

\* _calculate_optimal_bins: Sturges' rule, within 5..50
calculate_optimal_bins(n) == Max2(5, Min2(CeilLog2(n) + 1, 50))

RECURSIVE Power(_, _)
Power(x, k) == IF k = 0 THEN 1 ELSE x * Power(x, k - 1)

\* sum over the rows of S of (vals[c] - a)^k
RECURSIVE PowerSum(_, _, _, _)
PowerSum(S, c, k, a) ==
    IF S = {} THEN 0
    ELSE LET r == CHOOSE x \in S : TRUE
         IN  r.mult * Power(r.vals[c] - a, k) + PowerSum(S \ {r}, c, k, a)

Sign(x) == IF x > 0 THEN 1 ELSE IF x < 0 THEN -1 ELSE 0

\* the central moments m2, m3, m4 of the non-null rows S of column c, as far
\* as skew() and kurtosis() depend on them: flat (m2 = 0), the sign of m3,
\* skew2 = m3^2 / m2^3 and kurt = ((n + 1) m4 / m2^2 - 3 (n - 1)) / n.  With
\* the power sums p1..p4 about the least value, n^2 m2 = n p2 - p1^2,
\* n^3 m3 = n^2 p3 - 3 n p1 p2 + 2 p1^3 and
\* n^4 m4 = n^3 p4 - 4 n^2 p1 p3 + 6 n p1^2 p2 - 3 p1^4.
CentralMoments(S, c) ==
    LET n  == NumRows(S)
        lo == Kth(S, c, 0)
        p1 == PowerSum(S, c, 1, lo)
        p2 == PowerSum(S, c, 2, lo)
        p3 == PowerSum(S, c, 3, lo)
        p4 == PowerSum(S, c, 4, lo)
        A2 == n * p2 - p1 * p1
        A3 == n * n * p3 - 3 * n * p1 * p2 + 2 * p1 * p1 * p1
        A4 == n * n * n * p4 - 4 * n * n * p1 * p3 + 6 * n * p1 * p1 * p2 - 3 * p1 * p1 * p1 * p1
    IN  [n |-> n, flat |-> FALSE, sign |-> Sign(A3),
         skew2 |-> <<A3 * A3, A2 * A2 * A2>>,
         kurt  |-> <<(n + 1) * A4 - 3 * (n - 1) * A2 * A2, n * A2 * A2>>]

\* the same moments of a column of two distinct values, k rows holding the
\* greater one: with q = k (n - k) the sums above are n^2 m2 = q,
\* n^3 m3 = q (n - 2 k) and n^4 m4 = q (n^2 - 3 q), which keeps the numbers
\* of a long column small
CentralMomentsOfTwo(S, c) ==
    LET n == NumRows(S)
        k == Freq(S, c, Kth(S, c, n - 1))
        q == k * (n - k)
    IN  [n |-> n, flat |-> FALSE, sign |-> Sign(n - 2 * k),
         skew2 |-> <<(n - 2 * k) * (n - 2 * k), q>>,
         kurt  |-> <<n * (n + 1) - 6 * q, q>>]

\* the moments of column c; skew() and kurtosis() of a column of one
\* repeated value are 0
ShapeOf(f, c) ==
    LET S == NotNull(f.rows, c)
    IN  IF Cardinality(Distinct(S, c)) <= 1
        THEN [n |-> NumRows(S), flat |-> TRUE, sign |-> 0, skew2 |-> <<0, 1>>, kurt |-> <<0, 1>>]
        ELSE IF Cardinality(Distinct(S, c)) = 2 THEN CentralMomentsOfTwo(S, c)
        ELSE CentralMoments(S, c)

\* data.skew(), the bias-corrected sample skewness
\* sqrt(n (n - 1)) / (n - 2) * m3 / m2^1.5, against the bound a / b > 0:
\* |skew| < a / b, skew > a / b and skew < -a / b by the square
SkewAbsBelow(sh, a, b) ==
    sh.flat \/ RatLt(sh.skew2, <<a * a * (sh.n - 2) * (sh.n - 2), b * b * sh.n * (sh.n - 1)>>)

SkewAbsAbove(sh, a, b) ==
    ~sh.flat /\ RatLt(<<a * a * (sh.n - 2) * (sh.n - 2), b * b * sh.n * (sh.n - 1)>>, sh.skew2)

SkewAbove(sh, a, b) == sh.sign > 0 /\ SkewAbsAbove(sh, a, b)

SkewBelowMinus(sh, a, b) == sh.sign < 0 /\ SkewAbsAbove(sh, a, b)

\* data.kurtosis(), the bias-corrected excess kurtosis
\* (n - 1) / ((n - 2) (n - 3)) * ((n + 1) m4 / m2^2 - 3 (n - 1)), against the
\* bound a / b, b > 0
KurtosisAbove(sh, a, b) ==
    IF sh.flat THEN a < 0
    ELSE RatLt(<<a * (sh.n - 2) * (sh.n - 3), b * sh.n * (sh.n - 1)>>, sh.kurt)

KurtosisBelow(sh, a, b) ==
    IF sh.flat THEN a > 0
    ELSE RatLt(sh.kurt, <<a * (sh.n - 2) * (sh.n - 3), b * sh.n * (sh.n - 1)>>)

\* _identify_distribution_type with the tests of the kurtosis before those
\* of the skewness
identify_distribution_type_by_tails(f, c) ==
    LET sh == ShapeOf(f, c)
    IN  IF SkewAbsBelow(sh, 1, 2) /\ KurtosisAbove(sh, -1, 2) /\ KurtosisBelow(sh, 1, 2)
        THEN "normal"
        ELSE IF KurtosisAbove(sh, 3, 1) THEN "heavy_tailed"
        ELSE IF KurtosisBelow(sh, -1, 1) THEN "light_tailed"
        ELSE IF SkewAbove(sh, 1, 1) THEN "right_skewed"
        ELSE IF SkewBelowMinus(sh, 1, 1) THEN "left_skewed"
        ELSE "unknown"

\* _identify_distribution_type: the first test that holds names the shape
identify_distribution_type(f, c) ==
    LET sh == ShapeOf(f, c)
    IN  IF SkewAbsBelow(sh, 1, 2) /\ KurtosisAbove(sh, -1, 2) /\ KurtosisBelow(sh, 1, 2)
        THEN "normal"
        ELSE IF SkewAbove(sh, 1, 1) THEN "right_skewed"
        ELSE IF SkewBelowMinus(sh, 1, 1) THEN "left_skewed"
        ELSE IF KurtosisAbove(sh, 3, 1) THEN "heavy_tailed"
        ELSE IF KurtosisBelow(sh, -1, 1) THEN "light_tailed"
        ELSE "unknown"

\* _distribution_analysis, smp[c] being the sample drawn for column c
distribution_analysis(f, sch, smp) ==
    [c \in DistributionColumns(f, sch) |->
        [normality_test |-> [shapiro_sample |-> smp[c], is_normal |-> IsNormal(smp[c])],
         histogram_bins |-> calculate_optimal_bins(Count(f, c)),
         distribution_type |-> identify_distribution_type(f, c)]]

\* the dataset-level record with the columns that have a gap counted by the
\* rows that have one
MissingSummaryByRows(f) ==
    LET total == NumRows(f.rows) * Len(f.cols)
        miss  == SumFn([c \in Columns(f) |-> NullCount(f, c)])
    IN  [total_missing_values       |-> miss,
         total_cells                |-> total,
         overall_missing_percentage |-> <<100 * miss, total>>,
         columns_with_missing       |-> NumRows({r \in f.rows : r.na # {}})]

\* the dataset-level record of the missing data analysis (lines 168-176)
MissingSummary(f) ==
    LET total == NumRows(f.rows) * Len(f.cols)
        miss  == SumFn([c \in Columns(f) |-> NullCount(f, c)])
    IN  [total_missing_values       |-> miss,
         total_cells                |-> total,
         overall_missing_percentage |-> <<100 * miss, total>>,
         columns_with_missing       |-> Cardinality({c \in Columns(f) : NullCount(f, c) > 0})]

\* the record of column c (lines 158-165)
MissingOfColumn(f, c) ==
    [missing_count      |-> NullCount(f, c),
     missing_percentage |-> <<100 * NullCount(f, c), NumRows(f.rows)>>,
     has_missing        |-> NullCount(f, c) > 0]

\* _missing_data_analysis: the records of the columns, then the key
\* 'summary' is assigned in the same dict
missing_data_analysis(f) ==
    [k \in Columns(f) \cup {"summary"} |->
        IF k = "summary" THEN MissingSummary(f) ELSE MissingOfColumn(f, k)]

\* the outlier record counting the values on a bound as outliers too
OutliersOfColumnInclusive(f, c) ==
    LET S    == NotNull(f.rows, c)
        n    == Moment(S, c, 0)
        Q1   == Quantile4(S, c, 1)
        Q3   == Quantile4(S, c, 3)
        lo8  == 2 * Q1 - 3 * (Q3 - Q1)
        hi8  == 2 * Q3 + 3 * (Q3 - Q1)
        outc == NumRows({r \in S : 8 * r.vals[c] <= lo8 \/ 8 * r.vals[c] >= hi8})
    IN  [outlier_count      |-> outc,
         outlier_percentage |-> <<100 * outc, n>>,
         lower_bound        |-> <<lo8, 8 * f.scale[c]>>,
         upper_bound        |-> <<hi8, 8 * f.scale[c]>>,
         has_outliers       |-> outc > 0]

\* _outlier_analysis of one column: bounds Q1 - 1.5 IQR and Q3 + 1.5 IQR in
\* eighths of the stored unit
OutliersOfColumn(f, c) ==
    LET S    == NotNull(f.rows, c)
        n    == Moment(S, c, 0)
        Q1   == Quantile4(S, c, 1)
        Q3   == Quantile4(S, c, 3)
        lo8  == 2 * Q1 - 3 * (Q3 - Q1)
        hi8  == 2 * Q3 + 3 * (Q3 - Q1)
        outc == NumRows({r \in S : 8 * r.vals[c] < lo8 \/ 8 * r.vals[c] > hi8})
    IN  [outlier_count      |-> outc,
         outlier_percentage |-> <<100 * outc, n>>,
         lower_bound        |-> <<lo8, 8 * f.scale[c]>>,
         upper_bound        |-> <<hi8, 8 * f.scale[c]>>,
         has_outliers       |-> outc > 0]

\* the outlier analysis giving a numeric column without data a record of
\* zeros
outlier_analysis_with_zeros(f, sch) ==
    [c \in Range(sch.numeric_columns) |->
        IF Count(f, c) > 0 THEN OutliersOfColumn(f, c)
        ELSE [outlier_count |-> 0, outlier_percentage |-> <<0, 1>>, lower_bound |-> <<0, 1>>,
              upper_bound |-> <<0, 1>>, has_outliers |-> FALSE]]

outlier_analysis(f, sch) ==
    [c \in {d \in Range(sch.numeric_columns) : Count(f, d) > 0} |-> OutliersOfColumn(f, c)]

\* the summary generate_summary returns for a frame that is None or empty
EmptySummary == [p \in Profiles |-> EmptyDict]

\* a division the code evaluates: where, for which column, and a number that
\* is zero exactly when the divisor is
Division(of, c, by) == [of |-> of, column |-> c, by |-> by]

\* the divisions of _missing_data_analysis and _outlier_analysis made for
\* every frame, the empty one too
SummaryDivisionsOfAnyFrame(f, sch) ==
    {Division("missing_percentage", c, NumRows(f.rows)) : c \in Columns(f)}
        \cup {Division("overall_missing_percentage", "", NumRows(f.rows) * Len(f.cols))}
        \cup {Division("outlier_percentage", c, Count(f, c)) : c \in Range(sch.numeric_columns)}

\* the divisions generate_summary evaluates on the frame f: none for None or
\* an empty frame (lines 21-29), else by len(df) for every column (line 159),
\* by the number of cells (line 174) and by the non-null count of every
\* numeric column that has a value (lines 186-201)
SummaryDivisions(f, sch) ==
    IF IsNone(f) \/ IsEmpty(f) THEN {}
    ELSE {Division("missing_percentage", c, NumRows(f.rows)) : c \in Columns(f)}
             \cup {Division("overall_missing_percentage", "", NumRows(f.rows) * Len(f.cols))}
             \cup {Division("outlier_percentage", c, Count(f, c)) :
                       c \in {d \in Range(sch.numeric_columns) : Count(f, d) > 0}}

----------------------------------------------------------------------------
(* InsightsGenerator *)

\* An insight is a formatted string; the model keeps what the string is
\* built from: the generator that emitted it (cat), which of its messages it
\* is (kind), the columns or values it names and the numbers it shows.
Insight(cat, kind, names, nums) == [cat |-> cat, kind |-> kind, names |-> names, nums |-> nums]

\* dict.get(key, default)
Get(d, k, default) == IF k \in DOMAIN d THEN d[k] ELSE default

\* the keys of the dict d in insertion order, order listing the candidates
\* in the order the analyzer visited them
Keys(d, order) == SelectSeq(order, LAMBDA k : k \in DOMAIN d)

\* s1 + s2 + ... for a sequence of sequences
RECURSIVE Flatten(_)
Flatten(ss) == IF ss = <<>> THEN <<>> ELSE Head(ss) \o Flatten(Tail(ss))

\* _dataset_overview_insights
dataset_overview_insights(f, sch) ==
    <<Insight("overview", "records", <<>>, <<NumRows(f.rows), Len(f.cols)>>)>>
    \o (IF sch.summary.numeric > 0
        THEN <<Insight("overview", "numeric", <<>>, <<sch.summary.numeric>>)>> ELSE <<>>)
    \o (IF sch.summary.categorical > 0
        THEN <<Insight("overview", "categorical", <<>>, <<sch.summary.categorical>>)>> ELSE <<>>)
    \o (IF sch.summary.datetime > 0
        THEN <<Insight("overview", "datetime", <<>>, <<sch.summary.datetime>>)>> ELSE <<>>)
    \o <<Insight("overview", "memory", <<>>, <<>>)>>

\* abs(mean - median) / max(abs(mean), abs(median), 1) > 0.1
MeanFarFromMedian(st) ==
    LET diff == RatAbs(RatSub(st.mean, st.median))
        big  == RatMax(RatMax(RatAbs(st.mean), RatAbs(st.median)), <<1, 1>>)
    IN  RatLt(big, <<10 * diff[1], diff[2]>>)

\* mean^2
MeanSquared(st) == <<st.mean[1] * st.mean[1], st.mean[2] * st.mean[2]>>

\* cv = std / abs(mean) if mean != 0 else 0;  cv > 1, that is var > mean^2
HighVariability(st) ==
    st.mean[1] # 0 /\ RatLt(MeanSquared(st), st.var)

\* cv < 0.1, that is 100 var < mean^2
LowVariability(st) ==
    \/ st.mean[1] = 0
    \/ RatLt(<<100 * st.var[1], st.var[2]>>, MeanSquared(st))

\* the insights of one numeric column (lines 72-91)
NumericInsights(c, st) ==
    <<IF MeanFarFromMedian(st)
      THEN IF RatLt(st.median, st.mean)
           THEN Insight("statistical", "right_skewed", <<c>>, <<>>)
           ELSE Insight("statistical", "left_skewed", <<c>>, <<>>)
      ELSE Insight("statistical", "symmetric", <<c>>, <<>>)>>
    \o (IF HighVariability(st) THEN <<Insight("statistical", "high_variability", <<c>>, <<>>)>>
        ELSE IF LowVariability(st) THEN <<Insight("statistical", "low_variability", <<c>>, <<>>)>>
        ELSE <<>>)

\* the insight of a categorical column with the dominance test before the
\* diversity test
CategoricalInsightsDominanceFirst(c, st) ==
    <<IF 10 * st.most_frequent_count > 7 * st.count
      THEN Insight("statistical", "dominated", <<c>>, <<st.most_frequent>>)
      ELSE IF 10 * st.unique_count > 8 * st.count
      THEN Insight("statistical", "high_diversity", <<c>>, <<st.unique_count>>)
      ELSE Insight("statistical", "balanced", <<c>>, <<st.unique_count>>)>>

\* the insight of one categorical column (lines 96-110)
CategoricalInsights(c, st) ==
    <<IF 10 * st.unique_count > 8 * st.count
      THEN Insight("statistical", "high_diversity", <<c>>, <<st.unique_count>>)
      ELSE IF 10 * st.most_frequent_count > 7 * st.count
      THEN Insight("statistical", "dominated", <<c>>, <<st.most_frequent>>)
      ELSE Insight("statistical", "balanced", <<c>>, <<st.unique_count>>)>>

\* the statistical insights of every numeric and every categorical column
statistical_insights_of_all(sch, stats) ==
    LET desc == Get(stats, "descriptive_stats", EmptyDict)
        num  == Keys(desc, sch.numeric_columns)
        cat  == Keys(desc, sch.categorical_columns)
    IN  Flatten([k \in 1..Len(num) |-> NumericInsights(num[k], desc[num[k]])])
        \o Flatten([k \in 1..Len(cat) |-> CategoricalInsights(cat[k], desc[cat[k]])])

\* _statistical_insights: the first 5 numeric, then the first 3 categorical columns
statistical_insights(sch, stats) ==
    LET desc == Get(stats, "descriptive_stats", EmptyDict)
        num  == Keys(desc, Take(sch.numeric_columns, 5))
        cat  == Keys(desc, Take(sch.categorical_columns, 3))
    IN  Flatten([k \in 1..Len(num) |-> NumericInsights(num[k], desc[num[k]])])
        \o Flatten([k \in 1..Len(cat) |-> CategoricalInsights(cat[k], desc[cat[k]])])

\* the divisions _statistical_insights evaluates: by abs(mean) for the
\* coefficient of variation of a described numeric column whose mean is not
\* 0 (line 87), by count for the diversity and the dominance of a described
\* categorical column (lines 102-103)
InsightDivisions(sch, stats) ==
    LET desc == Get(stats, "descriptive_stats", EmptyDict)
        num  == Range(Keys(desc, Take(sch.numeric_columns, 5)))
        cat  == Range(Keys(desc, Take(sch.categorical_columns, 3)))
    IN  {Division("cv", c, Abs(desc[c].mean[1])) : c \in {d \in num : desc[d].mean[1] # 0}}
            \cup {Division("diversity", c, desc[c].count) : c \in cat}
            \cup {Division("dominance", c, desc[c].count) : c \in cat}

\* the bands with <= 5 and <= 15 for the tests < 5 and < 15
QualityBandInclusive(p) ==
    IF p[1] = 0 THEN "excellent"
    ELSE IF ~RatLt(<<5, 1>>, p) THEN "good"
    ELSE IF ~RatLt(<<15, 1>>, p) THEN "moderate"
    ELSE "poor"

\* the band of overall_missing_percentage p (lines 124-131)
QualityBand(p) ==
    IF p[1] = 0 THEN "excellent"
    ELSE IF RatLt(p, <<5, 1>>) THEN "good"
    ELSE IF RatLt(p, <<15, 1>>) THEN "moderate"
    ELSE "poor"

\* _data_quality_insights; the keys of missing_info are the columns in
\* frame order, then 'summary'
data_quality_insights(f, stats) ==
    LET info    == Get(stats, "missing_data", EmptyDict)
        summary == Get(info, "summary", EmptyDict)
        overall == Get(summary, "overall_missing_percentage", <<0, 1>>)
        nmiss   == Get(summary, "columns_with_missing", 0)
        keys    == Keys(info, f.cols \o (IF "summary" \in Columns(f) THEN <<>> ELSE <<"summary">>))
        high    == SelectSeq(keys, LAMBDA k :
                       RatLt(<<20, 1>>, Get(info[k], "missing_percentage", <<0, 1>>)))
    IN  <<Insight("quality", QualityBand(overall), <<>>, <<overall[1], overall[2]>>)>>
        \o (IF nmiss > 0 THEN <<Insight("quality", "columns_with_missing", <<>>, <<nmiss>>)>>
            ELSE <<>>)
        \o (IF high # <<>> THEN <<Insight("quality", "high_missing", Take(high, 3), <<>>)>>
            ELSE <<>>)

\* _correlation_insights
\* the correlation insights saying nothing when the correlation structure
\* has no list of strong correlations at all
correlation_insights_silent(stats) ==
    LET corr   == Get(stats, "correlations", EmptyDict)
        strong == Take(Get(corr, "strong_correlations", <<>>), 3)
    IN  IF "strong_correlations" \notin DOMAIN corr THEN <<>>
        ELSE IF corr["strong_correlations"] = <<>>
        THEN <<Insight("correlation", "none", <<>>, <<>>)>>
        ELSE [k \in 1..Len(strong) |->
                Insight("correlation",
                        IF strong[k].correlation.num > 0 THEN "positive" ELSE "negative",
                        <<strong[k].column1, strong[k].column2>>,
                        <<strong[k].correlation.num, strong[k].correlation.vx,
                          strong[k].correlation.vy>>)]

correlation_insights(stats) ==
    LET corr   == Get(stats, "correlations", EmptyDict)
        strong == Take(Get(corr, "strong_correlations", <<>>), 3)
    IN  IF Get(corr, "strong_correlations", <<>>) = <<>>
        THEN <<Insight("correlation", "none", <<>>, <<>>)>>
        ELSE [k \in 1..Len(strong) |->
                Insight("correlation",
                        IF strong[k].correlation.num > 0 THEN "positive" ELSE "negative",
                        <<strong[k].column1, strong[k].column2>>,
                        <<strong[k].correlation.num, strong[k].correlation.vx,
                          strong[k].correlation.vy>>)]

\* _distribution_insights; the keys of distributions are in the order of the
\* numeric columns
distribution_insights(sch, stats) ==
    LET dist   == Get(stats, "distributions", EmptyDict)
        keys   == Keys(dist, sch.numeric_columns)
        normal == SelectSeq(keys, LAMBDA c : dist[c].normality_test.is_normal)
        skewed == SelectSeq(keys, LAMBDA c : ~dist[c].normality_test.is_normal)
    IN  (IF normal # <<>> THEN <<Insight("distribution", "normal", Take(normal, 3), <<>>)>>
         ELSE <<>>)
        \o (IF skewed # <<>> THEN <<Insight("distribution", "non_normal", Take(skewed, 3), <<>>)>>
            ELSE <<>>)

\* the outlier insights flagging a column from 5 percent on
outlier_insights_from_five(sch, stats) ==
    LET outl  == Get(stats, "outliers", EmptyDict)
        keys  == Keys(outl, sch.numeric_columns)
        high  == SelectSeq(keys, LAMBDA c : ~RatLt(outl[c].outlier_percentage, <<5, 1>>))
        clean == SelectSeq(keys, LAMBDA c : RatLt(outl[c].outlier_percentage, <<5, 1>>)
                                            /\ outl[c].outlier_percentage[1] = 0)
        top   == Take(high, 3)
    IN  (IF clean # <<>> THEN <<Insight("outlier", "clean", Take(clean, 3), <<>>)>> ELSE <<>>)
        \o [k \in 1..Len(top) |->
               Insight("outlier", "flagged", <<top[k]>>,
                       <<outl[top[k]].outlier_percentage[1], outl[top[k]].outlier_percentage[2]>>)]

\* _outlier_insights
outlier_insights(sch, stats) ==
    LET outl  == Get(stats, "outliers", EmptyDict)
        keys  == Keys(outl, sch.numeric_columns)
        high  == SelectSeq(keys, LAMBDA c : RatLt(<<5, 1>>, outl[c].outlier_percentage))
        clean == SelectSeq(keys, LAMBDA c : ~RatLt(<<5, 1>>, outl[c].outlier_percentage)
                                            /\ outl[c].outlier_percentage[1] = 0)
        top   == Take(high, 3)
    IN  (IF clean # <<>> THEN <<Insight("outlier", "clean", Take(clean, 3), <<>>)>> ELSE <<>>)
        \o [k \in 1..Len(top) |->
               Insight("outlier", "flagged", <<top[k]>>,
                       <<outl[top[k]].outlier_percentage[1], outl[top[k]].outlier_percentage[2]>>)]

\* the six generators with the quality insights after the correlation insights
generate_insights_swapped(f, sch, stats) ==
    dataset_overview_insights(f, sch)
    \o statistical_insights(sch, stats)
    \o correlation_insights(stats)
    \o data_quality_insights(f, stats)
    \o distribution_insights(sch, stats)
    \o outlier_insights(sch, stats)

\* generate_insights: the six generators in their fixed order
generate_insights(f, sch, stats) ==
    dataset_overview_insights(f, sch)
    \o statistical_insights(sch, stats)
    \o data_quality_insights(f, stats)
    \o correlation_insights(stats)
    \o distribution_insights(sch, stats)
    \o outlier_insights(sch, stats)

----------------------------------------------------------------------------
(* The pipeline *)

Analyzers == <<"descriptive", "correlation", "distribution", "missing", "outliers">>

NoResponse == [status |-> 0, error_code |-> ""]

\* the jsonify(...), 500 of upload_file's except clause
ErrorResponse == [status |-> 500, error_code |-> "PROCESSING_ERROR"]

\* safe_json_response(response_data, 200)
OkResponse == [status |-> 200, error_code |-> ""]

NoSchema == [numeric_columns |-> <<>>, categorical_columns |-> <<>>, datetime_columns |-> <<>>,
             text_columns |-> <<>>, boolean_columns |-> <<>>,
             summary |-> [numeric |-> 0, categorical |-> 0, datetime |-> 0,
                          text |-> 0, boolean |-> 0]]

NoFirst == [statistics |-> EmptyDict, insights |-> <<>>, schema |-> NoSchema,
            outcome |-> "", raised |-> ""]

\* the columns the analyzer an computes on, given the frame and its schema
Visited(an, f, sch) ==
    IF an = "descriptive" THEN DOMAIN descriptive_statistics(f, sch, {})
    ELSE IF an = "correlation"
    THEN IF Len(sch.numeric_columns) > 1 THEN Range(sch.numeric_columns) ELSE {}
    ELSE IF an = "distribution" THEN DistributionColumns(f, sch)
    ELSE IF an = "missing" THEN Columns(f)
    ELSE {c \in Range(sch.numeric_columns) : Count(f, c) > 0}

\* the frame the analyzers get: an uploaded file is loaded and cleaned
Analyzed(e, fl) ==
    IF e = "direct" THEN fl.frame
    ELSE IF IsNone(load_dataset(fl)) \/ IsEmpty(load_dataset(fl)) THEN NoFrame
    ELSE clean_data(load_dataset(fl))

\* the computations of the analyzers on this dataset: any one of them may be
\* the one that raises
Computations(e, fl) ==
    LET f == Analyzed(e, fl)
    IN  IF IsNone(f) \/ IsEmpty(f) \/ SchemaRaises(f) THEN {}
        ELSE UNION {{<<Analyzers[i], c>> : c \in Visited(Analyzers[i], f, analyze_schema(f))} :
                       i \in DOMAIN Analyzers}

----------------------------------------------------------------------------
(* The request threads of the server.  backend/app.py runs Flask with       *)
(* threaded=True: every request is handled by a thread of its own, and all  *)
(* threads share the global analysis_engine and the engine's attributes.    *)
(* The interpreter executes one thread at a time, so a step of the model is *)
(* one load or store of a global or an attribute.  An object is identified  *)
(* by the request whose thread constructed it; 0 stands for None and for an *)
(* attribute that was never assigned.                                       *)

\* the requests, one thread each
Requests == 1..MaxRequests

\* AnalysisEngine.__init__, lines 14-16: the flag is cleared and no component
\* attribute exists yet
NewEngine ==
    [components_initialized |-> FALSE, data_summary |-> 0, chart_generator |-> 0,
     insights_generator |-> 0, ai_explainer |-> 0]

\* the component attributes of an engine
ComponentNames == {"data_summary", "chart_generator", "insights_generator", "ai_explainer"}

\* the statements of _init_components with the flag set before the
\* components exist
InitOrderFlagFirst ==
    <<"components_initialized", "data_summary", "chart_generator", "insights_generator",
      "ai_explainer">>

\* _init_components, lines 26-30: the attributes in the order they are assigned
InitOrder ==
    <<"data_summary", "chart_generator", "insights_generator", "ai_explainer",
      "components_initialized">>

\* the attributes a route reads once _init_components has returned:
\* get_chart_generator line 35, analyze_dataset lines 72, 75, 80 and 87
ReadBy(route) == IF route = "get_chart_generator" THEN {"chart_generator"} ELSE ComponentNames

\* a thread that has not received its request
IdleThread == [pc |-> "idle", route |-> "", engine |-> 0, assigned |-> 0, got |-> <<>>]

ServerInit ==
    /\ analysis_engine = 0
    /\ engines = <<>>
    /\ threads = [t \in Requests |-> IdleThread]

\* a request arrives: upload_file line 661 and the report route line 709
\* call analyze_dataset, the weather route line 501 get_chart_generator
Receive(t) ==
    /\ threads[t].pc = "idle"
    /\ \E r \in {"analyze_dataset", "get_chart_generator"} :
          threads' = [threads EXCEPT ![t].route = r, ![t].pc = "test_engine"]
    /\ UNCHANGED <<analysis_engine, engines, pipeline>>

\* get_analysis_engine, line 66: if analysis_engine is None
TestEngine(t) ==
    /\ threads[t].pc = "test_engine"
    /\ threads' = [threads EXCEPT ![t].pc = IF analysis_engine = 0 THEN "construct_engine"
                                            ELSE "return_engine"]
    /\ UNCHANGED <<analysis_engine, engines, pipeline>>

\* line 70: an AnalysisEngine is constructed and stored in the global
ConstructEngine(t) ==
    /\ threads[t].pc = "construct_engine"
    /\ engines' = engines @@ (t :> NewEngine)
    /\ analysis_engine' = t
    /\ threads' = [threads EXCEPT ![t].pc = "return_engine"]
    /\ UNCHANGED pipeline

\* line 72: return analysis_engine reads the global again
ReturnEngine(t) ==
    /\ threads[t].pc = "return_engine"
    /\ threads' = [threads EXCEPT ![t].engine = analysis_engine, ![t].pc = "test_components"]
    /\ UNCHANGED <<analysis_engine, engines, pipeline>>

\* _init_components, line 20, called by analyze_dataset line 51 and by
\* get_chart_generator line 34: if not self._components_initialized
TestComponents(t) ==
    /\ threads[t].pc = "test_components"
    /\ threads' = [threads EXCEPT ![t].pc = IF engines[threads[t].engine].components_initialized
                                            THEN "use" ELSE "assign"]
    /\ UNCHANGED <<analysis_engine, engines, pipeline>>

\* the statement of lines 26-30 that thread t executes next assigns attr
At(t, attr) ==
    /\ threads[t].pc = "assign"
    /\ InitOrder[threads[t].assigned + 1] = attr

\* a statement of lines 26-30: the attribute is bound to a new object, or
\* the flag to True
Bind(t, attr) ==
    /\ engines' = [engines EXCEPT ![threads[t].engine][attr] =
                      IF attr = "components_initialized" THEN TRUE ELSE t]
    /\ threads' = [threads EXCEPT ![t].assigned = @ + 1,
                                  ![t].pc = IF threads[t].assigned + 1 = Len(InitOrder)
                                            THEN "use" ELSE "assign"]
    /\ UNCHANGED <<analysis_engine, pipeline>>

\* line 26: self.data_summary = DataSummary()
AssignDataSummary(t) ==
    /\ At(t, "data_summary")
    /\ Bind(t, "data_summary")

\* line 27: self.chart_generator = ChartGenerator(self.output_dir)
AssignChartGenerator(t) ==
    /\ At(t, "chart_generator")
    /\ Bind(t, "chart_generator")

\* line 28: self.insights_generator = InsightsGenerator()
AssignInsightsGenerator(t) ==
    /\ At(t, "insights_generator")
    /\ Bind(t, "insights_generator")

\* line 29: self.ai_explainer = AIChartExplainer()
AssignAIExplainer(t) ==
    /\ At(t, "ai_explainer")
    /\ Bind(t, "ai_explainer")

\* line 30: self._components_initialized = True
SetInitialized(t) ==
    /\ At(t, "components_initialized")
    /\ Bind(t, "components_initialized")

\* the caller reads the components: get_chart_generator returns
\* self.chart_generator, analyze_dataset uses all four
UseComponents(t) ==
    /\ threads[t].pc = "use"
    /\ threads' = [threads EXCEPT
                      ![t].got = [a \in ReadBy(threads[t].route) |-> engines[threads[t].engine][a]],
                      ![t].pc = "done"]
    /\ UNCHANGED <<analysis_engine, engines, pipeline>>

----------------------------------------------------------------------------
\* the frame a run starts from
Dataset == IF entry = "upload" THEN NoFrame ELSE file.frame

Init ==
    /\ entry \in {"upload", "direct"}
    /\ \/ entry = "direct" /\ file \in {[readable |-> TRUE, frame |-> f] : f \in DataFrames}
       \/ entry = "upload" /\ file \in {[readable |-> TRUE, frame |-> f] : f \in UploadFrames}
       \/ entry = "upload" /\ file = [readable |-> FALSE, frame |-> NoFrame]
    /\ faulty \in {<<>>} \cup Computations(entry, file)
    /\ df = Dataset
    /\ pc = IF entry = "upload" THEN "load" ELSE "schema"
    /\ components = FALSE
    /\ schema = NoSchema
    /\ statistics = EmptyDict
    /\ caught = {}
    /\ raised = ""
    /\ insights = <<>>
    /\ outcome = "running"
    /\ response = NoResponse
    /\ run = 1
    /\ first = NoFirst
    /\ ServerInit

\* an exception leaves the pipeline: analyze_dataset has no handler, the
\* except clause of upload_file answers 500
Raise(exc) ==
    /\ raised' = exc
    /\ outcome' = "raised"
    /\ response' = IF entry = "upload" THEN ErrorResponse ELSE NoResponse
    /\ pc' = "done"

\* analyze_dataset, lines 51-62: _init_components, load_dataset, and
\* ValueError when nothing was loaded
RejectDataset ==
    /\ pc = "load"
    /\ IsNone(load_dataset(file)) \/ IsEmpty(load_dataset(file))
    /\ components' = TRUE
    /\ df' = load_dataset(file)
    /\ Raise("ValueError")
    /\ UNCHANGED <<entry, file, schema, statistics, faulty, caught, insights, run, first>>
    /\ UNCHANGED server

\* lines 51-64: _init_components, load_dataset and clean_data
LoadDataset ==
    /\ pc = "load"
    /\ ~(IsNone(load_dataset(file)) \/ IsEmpty(load_dataset(file)))
    /\ components' = TRUE
    /\ df' = clean_data(load_dataset(file))
    /\ pc' = "schema"
    /\ UNCHANGED <<entry, file, schema, statistics, faulty, caught, raised, insights,
                   outcome, response, run, first>>
    /\ UNCHANGED server

\* line 68: _analyze_schema
AnalyzeSchema ==
    /\ pc = "schema"
    /\ ~SchemaRaises(df)
    /\ schema' = analyze_schema(df)
    /\ pc' = "summary"
    /\ UNCHANGED <<entry, file, df, components, statistics, faulty, caught, raised,
                   insights, outcome, response, run, first>>
    /\ UNCHANGED server

\* _analyze_schema divides by the length of an empty object column
SchemaDividesByZero ==
    /\ pc = "schema"
    /\ SchemaRaises(df)
    /\ Raise("ZeroDivisionError")
    /\ UNCHANGED <<entry, file, df, components, schema, statistics, faulty, caught,
                   insights, run, first>>
    /\ UNCHANGED server

\* generate_summary, lines 22-29: five empty profiles for an empty frame
SummaryOfEmpty ==
    /\ pc = "summary"
    /\ IsNone(df) \/ IsEmpty(df)
    /\ statistics' = EmptySummary
    /\ pc' = "insights"
    /\ UNCHANGED <<entry, file, df, components, schema, faulty, caught, raised,
                   insights, outcome, response, run, first>>
    /\ UNCHANGED server

\* the columns whose computation by analyzer an raises on this dataset
Faulty(an) == IF faulty # <<>> /\ faulty[1] = an THEN {faulty[2]} ELSE {}

\* generate_summary, line 32: _descriptive_statistics; its except clauses
\* skip a column whose computation raises
DescriptiveStatistics ==
    /\ pc = "summary"
    /\ ~(IsNone(df) \/ IsEmpty(df))
    /\ LET bad == Faulty("descriptive") \cap Visited("descriptive", df, schema)
       IN  /\ statistics' = [p \in {"descriptive_stats"} |->
                                descriptive_statistics(df, schema, bad)]
           /\ caught' = bad
    /\ pc' = "correlation"
    /\ UNCHANGED <<entry, file, df, components, schema, faulty, raised,
                   insights, outcome, response, run, first>>
    /\ UNCHANGED server

\* line 33: _correlation_analysis
CorrelationAnalysis ==
    /\ pc = "correlation"
    /\ Faulty("correlation") \cap Visited("correlation", df, schema) = {}
    /\ statistics' = statistics @@ ("correlations" :> correlation_analysis(df, schema))
    /\ pc' = "distribution"
    /\ UNCHANGED <<entry, file, df, components, schema, faulty, caught, raised,
                   insights, outcome, response, run, first>>
    /\ UNCHANGED server

\* line 34: _distribution_analysis, with the samples it draws
DistributionAnalysis ==
    /\ pc = "distribution"
    /\ Faulty("distribution") \cap Visited("distribution", df, schema) = {}
    /\ \E smp \in [DistributionColumns(df, schema) -> UNION {Samples(df, c) : c \in Columns(df)}] :
          /\ \A c \in DOMAIN smp : smp[c] \in Samples(df, c)
          /\ statistics' = statistics @@ ("distributions" :> distribution_analysis(df, schema, smp))
    /\ pc' = "missing"
    /\ UNCHANGED <<entry, file, df, components, schema, faulty, caught, raised,
                   insights, outcome, response, run, first>>
    /\ UNCHANGED server

\* line 35: _missing_data_analysis
MissingDataAnalysis ==
    /\ pc = "missing"
    /\ Faulty("missing") \cap Visited("missing", df, schema) = {}
    /\ statistics' = statistics @@ ("missing_data" :> missing_data_analysis(df))
    /\ pc' = "outliers"
    /\ UNCHANGED <<entry, file, df, components, schema, faulty, caught, raised,
                   insights, outcome, response, run, first>>
    /\ UNCHANGED server

\* line 36: _outlier_analysis; generate_summary returns
OutlierAnalysis ==
    /\ pc = "outliers"
    /\ Faulty("outliers") \cap Visited("outliers", df, schema) = {}
    /\ statistics' = statistics @@ ("outliers" :> outlier_analysis(df, schema))
    /\ pc' = "insights"
    /\ UNCHANGED <<entry, file, df, components, schema, faulty, caught, raised,
                   insights, outcome, response, run, first>>
    /\ UNCHANGED server

\* a computation of _correlation_analysis, _distribution_analysis,
\* _missing_data_analysis or _outlier_analysis raises: none of them has an
\* except clause, nor have generate_summary and analyze_dataset
AnalyzerRaises ==
    /\ pc \in {"correlation", "distribution", "missing", "outliers"}
    /\ Faulty(pc) \cap Visited(pc, df, schema) # {}
    /\ Raise("ColumnComputationError")
    /\ UNCHANGED <<entry, file, df, components, schema, statistics, faulty, caught,
                   insights, run, first>>
    /\ UNCHANGED server

\* the insights generated as soon as the missing-data profile is there,
\* without waiting for the outlier analysis
GenerateInsightsEarly ==
    /\ pc \in {"outliers", "insights"}
    /\ insights' = generate_insights(df, schema, statistics)
    /\ IF entry = "upload"
       THEN pc' = "compile" /\ UNCHANGED outcome
       ELSE pc' = "done" /\ outcome' = "returned"
    /\ UNCHANGED <<entry, file, df, components, schema, statistics, faulty, caught, raised,
                   response, run, first>>
    /\ UNCHANGED server

\* analyze_dataset, lines 75-87: the charts and their explanations, which
\* are no part of the model's state, then generate_insights; a direct caller
\* of generate_insights is done
GenerateInsights ==
    /\ pc = "insights"
    /\ insights' = generate_insights(df, schema, statistics)
    /\ IF entry = "upload"
       THEN pc' = "compile" /\ UNCHANGED outcome
       ELSE pc' = "done" /\ outcome' = "returned"
    /\ UNCHANGED <<entry, file, df, components, schema, statistics, faulty, caught, raised,
                   response, run, first>>
    /\ UNCHANGED server

\* lines 105-123: the results are compiled and returned, upload_file answers 200
CompileResults ==
    /\ pc = "compile"
    /\ outcome' = "returned"
    /\ response' = OkResponse
    /\ pc' = "done"
    /\ UNCHANGED <<entry, file, df, components, schema, statistics, faulty, caught, raised,
                   insights, run, first>>
    /\ UNCHANGED server

\* after a run that returned its results the same dataset is analysed once
\* more: the uploaded file is read from disk again, a direct caller passes
\* the same frame
Rerun ==
    /\ pc = "done"
    /\ outcome = "returned"
    /\ run = 1
    /\ first' = [statistics |-> statistics, insights |-> insights, schema |-> schema,
                 outcome |-> outcome, raised |-> raised]
    /\ run' = 2
    /\ df' = Dataset
    /\ pc' = IF entry = "upload" THEN "load" ELSE "schema"
    /\ schema' = NoSchema
    /\ statistics' = EmptyDict
    /\ caught' = {}
    /\ raised' = ""
    /\ insights' = <<>>
    /\ outcome' = "running"
    /\ response' = NoResponse
    /\ UNCHANGED <<entry, file, components, faulty>>
    /\ UNCHANGED server

Next ==
    \/ RejectDataset
    \/ LoadDataset
    \/ AnalyzeSchema
    \/ SchemaDividesByZero
    \/ SummaryOfEmpty
    \/ DescriptiveStatistics
    \/ CorrelationAnalysis
    \/ DistributionAnalysis
    \/ MissingDataAnalysis
    \/ OutlierAnalysis
    \/ AnalyzerRaises
    \/ GenerateInsights
    \/ CompileResults
    \/ Rerun

Spec == Init /\ [][Next]_vars

\* the threads of the server, before any dataset is analysed
ServerStart ==
    /\ entry = "upload"
    /\ file = [readable |-> FALSE, frame |-> NoFrame]
    /\ faulty = <<>>
    /\ Init

ServerNext ==
    \E t \in Requests :
        \/ Receive(t)
        \/ TestEngine(t)
        \/ ConstructEngine(t)
        \/ ReturnEngine(t)
        \/ TestComponents(t)
        \/ AssignDataSummary(t)
        \/ AssignChartGenerator(t)
        \/ AssignInsightsGenerator(t)
        \/ AssignAIExplainer(t)
        \/ SetInitialized(t)
        \/ UseComponents(t)

ServerSpec == ServerStart /\ [][ServerNext]_vars

----------------------------------------------------------------------------
(* The claims *)

\* the run ended with its results: generate_insights returned to a direct
\* caller, analyze_dataset returned to upload_file
Returned == pc = "done" /\ outcome = "returned"

\* the profile an analyzer writes
ProfileOf(an) ==
    IF an = "descriptive" THEN "descriptive_stats"
    ELSE IF an = "correlation" THEN "correlations"
    ELSE IF an = "distribution" THEN "distributions"
    ELSE IF an = "missing" THEN "missing_data"
    ELSE "outliers"

\* C1: a computation that raises for one column inside any of the five
\* analyzers never aborts the run: no exception leaves the pipeline, and the
\* finished run has returned all five profiles and the insights, the profile
\* of the failing analyzer being without the failing column.
C1_FailureIsolated ==
    faulty # <<>> =>
        /\ outcome # "raised"
        /\ pc = "done" =>
              /\ outcome = "returned"
              /\ DOMAIN statistics = Profiles
              /\ insights # <<>>
              /\ faulty[1] \in {"descriptive", "distribution", "outliers"} =>
                     faulty[2] \notin DOMAIN statistics[ProfileOf(faulty[1])]

\* a computation of an analyzer without an except clause raised: the run of
\* an uploaded file ended with the exception and the answer 500
C1_Witness ==
    /\ entry = "upload"
    /\ faulty # <<>>
    /\ faulty[1] # "descriptive"
    /\ pc = "done"
    /\ raised = "ColumnComputationError"
    /\ response = ErrorResponse
    /\ "descriptive_stats" \in DOMAIN statistics

\* the descriptive statistics have been computed for a frame with data
DescribedFrame ==
    /\ "descriptive_stats" \in DOMAIN statistics
    /\ ~(IsNone(df) \/ IsEmpty(df))

\* C2: once the descriptive statistics have run, every numeric
\* column of the schema has an entry in descriptive_stats or holds no value
\* at all.
C2_EntryOrAllMissing ==
    DescribedFrame =>
        \A c \in Range(schema.numeric_columns) :
            c \in DOMAIN statistics["descriptive_stats"] \/ Count(df, c) = 0

\* C2 with the except clause: once the descriptive statistics have run, every
\* numeric column of the schema has an entry in descriptive_stats, or holds
\* no value at all, or its computation raised and the except clause skipped
\* it; a column without values and a skipped column have no entry.
C2_EntryOrAllMissingOrSkipped ==
    DescribedFrame =>
        \A c \in Range(schema.numeric_columns) :
            c \in DOMAIN statistics["descriptive_stats"]
                <=> (Count(df, c) > 0 /\ ~(faulty = <<"descriptive", c>>))

\* a numeric column got its entry, a second one holds no value and has none,
\* or was skipped because its computation raised
C2_Witness ==
    /\ DescribedFrame
    /\ \E c, d \in Range(schema.numeric_columns) :
          /\ c \in DOMAIN statistics["descriptive_stats"]
          /\ d \notin DOMAIN statistics["descriptive_stats"]
          /\ faulty = <<"descriptive", d>>
          /\ Count(df, d) > 0

\* C3: two runs on the same unchanged dataset return the same schema, the
\* same five profiles (the normality test included) and the same insights.
C3_SameResults ==
    (run = 2 /\ Returned) =>
        /\ schema = first.schema
        /\ statistics = first.statistics
        /\ insights = first.insights

\* the second run on a column of more than 5000 values found it normal, the
\* first did not, or the other way round
C3_Witness ==
    /\ run = 2
    /\ Returned
    /\ faulty = <<>>
    /\ \E c \in DOMAIN statistics["distributions"] :
          /\ Count(df, c) > SampleCap
          /\ statistics["distributions"][c].normality_test.is_normal
                 # first.statistics["distributions"][c].normality_test.is_normal
    /\ insights # first.insights

\* a column of at most 5000 values is sampled whole: the two runs agree on
\* every dataset without a longer column
C3_SameResultsUpToCap ==
    (run = 2 /\ Returned /\ \A c \in Columns(df) : Count(df, c) <= SampleCap) =>
        /\ schema = first.schema
        /\ statistics = first.statistics
        /\ insights = first.insights

\* the file holds nothing analyze_dataset accepts: it cannot be read, or no
\* row or no column is left after loading
Unusable == IsNone(load_dataset(file)) \/ IsEmpty(load_dataset(file))

\* C4: for a dataset that is null, empty or cannot be loaded,
\* analyze_dataset ends without running an analyzer and without an exception
\* leaving it.
C4_NoExceptionEscapes ==
    (entry = "upload" /\ Unusable /\ pc = "done") =>
        /\ outcome # "raised"
        /\ statistics = EmptyDict

\* what the code does with such a dataset: analyze_dataset runs no analyzer
\* and raises ValueError, which leaves analyze_dataset; the except clause of
\* upload_file answers status 500 with the error_code PROCESSING_ERROR
C4_RejectedBeforeAnalysis ==
    (entry = "upload" /\ Unusable) =>
        /\ pc \in {"load", "done"}
        /\ schema = NoSchema /\ statistics = EmptyDict /\ insights = <<>>
        /\ pc = "done" =>
              /\ outcome = "raised"
              /\ raised = "ValueError"
              /\ response = ErrorResponse

\* an uploaded file that holds no data was rejected
C4_Witness ==
    /\ entry = "upload"
    /\ file.readable
    /\ IsEmpty(df)
    /\ pc = "done"
    /\ raised = "ValueError"
    /\ response.status = 500

\* the correlation analysis has produced its matrices and its list
Correlated ==
    /\ "correlations" \in DOMAIN statistics
    /\ statistics["correlations"] # EmptyDict

\* the strong-correlation list of the summary
StrongList == statistics["correlations"].strong_correlations

\* the position of column c in the schema's numeric columns
NumericIndex(c) == CHOOSE i \in DOMAIN schema.numeric_columns : schema.numeric_columns[i] = c

\* pair p comes before pair q in the order of the two nested loops
PairBefore(p, q) == p[1] < q[1] \/ (p[1] = q[1] /\ p[2] < q[2])

\* the pair of column positions of the k-th record of the list
RecordPair(k) == <<NumericIndex(StrongList[k].column1), NumericIndex(StrongList[k].column2)>>

\* C5: the strong-correlation list holds no record of a column with itself
\* and no two records of the same unordered pair, and its records are in the
\* order of the pairs (i, j), i < j, of the numeric columns.
C5_PairsOnceInOrder ==
    Correlated =>
        /\ \A k \in DOMAIN StrongList :
              /\ StrongList[k].column1 # StrongList[k].column2
              /\ RecordPair(k)[1] < RecordPair(k)[2]
        /\ \A k, l \in DOMAIN StrongList :
              k < l =>
                  /\ {StrongList[k].column1, StrongList[k].column2}
                         # {StrongList[l].column1, StrongList[l].column2}
                  /\ PairBefore(RecordPair(k), RecordPair(l))

\* three numeric columns, every pair of them on the list
C5_Witness ==
    /\ Correlated
    /\ Len(schema.numeric_columns) = 3
    /\ Len(StrongList) = 3

\* 100 r^2 > t^2 for the coefficient r = num / sqrt(vx vy), by the integers
Beyond(r, t) == ~r.nan /\ 100 * r.num * r.num > t * t * r.vx * r.vy

\* 100 r^2 = t^2
Exactly(r, t) == ~r.nan /\ 100 * r.num * r.num = t * t * r.vx * r.vy

\* the records of the list for column A as column1 and B as column2
RecordsOf(A, B) ==
    {k \in DOMAIN StrongList : StrongList[k].column1 = A /\ StrongList[k].column2 = B}

\* C6: columns A before B have a record on the strong-correlation list if
\* and only if |r(A, B)| > 0.7; the record carries r, and its strength is
\* 'strong' if and only if |r| > 0.8 and 'moderate' otherwise.  A coefficient
\* that is undefined or of absolute value 0.7 gives no record.
C6_RecordIffAboveThreshold ==
    Correlated =>
        \A i, j \in DOMAIN schema.numeric_columns :
            i < j =>
                LET A == schema.numeric_columns[i]
                    B == schema.numeric_columns[j]
                    r == statistics["correlations"].pearson[A][B]
                IN  /\ RecordsOf(A, B) # {} <=> Beyond(r, 7)
                    /\ \A k \in RecordsOf(A, B) :
                          /\ StrongList[k].correlation = r
                          /\ StrongList[k].strength = "strong" <=> Beyond(r, 8)
                          /\ StrongList[k].strength = "moderate" <=> ~Beyond(r, 8)

\* a coefficient of exactly 0.8 (or -0.8) is on the list as 'moderate'
C6_Witness ==
    /\ Correlated
    /\ \E k \in DOMAIN StrongList :
          /\ Exactly(StrongList[k].correlation, 8)
          /\ StrongList[k].strength = "moderate"

\* r = 1.0
IsOne(r) == ~r.nan /\ r.num > 0 /\ r.num * r.num = r.vx * r.vy

\* two coefficients are the same number, or both are NaN
SameCoefficient(r, s) ==
    /\ r.nan = s.nan
    /\ ~r.nan =>
          /\ (r.num > 0) = (s.num > 0)
          /\ (r.num < 0) = (s.num < 0)
          /\ RatEq(<<r.num * r.num, r.vx * r.vy>>, <<s.num * s.num, s.vx * s.vy>>)

\* C7: the Pearson matrix is symmetric and every entry of its
\* diagonal is 1.0.
C7_SymmetricUnitDiagonal ==
    Correlated =>
        \A A, B \in Range(schema.numeric_columns) :
            /\ SameCoefficient(statistics["correlations"].pearson[A][B],
                               statistics["correlations"].pearson[B][A])
            /\ IsOne(statistics["correlations"].pearson[A][A])

\* what the code computes: the Pearson matrix is symmetric (two entries
\* equal, or both NaN), and the diagonal entry of a column is 1.0 if the
\* column holds two different values and NaN if it is constant or holds
\* fewer than two values
C7_SymmetricDiagonalOneOrNaN ==
    Correlated =>
        \A A, B \in Range(schema.numeric_columns) :
            /\ SameCoefficient(statistics["correlations"].pearson[A][B],
                               statistics["correlations"].pearson[B][A])
            /\ IF NUnique(df, A) >= 2
               THEN IsOne(statistics["correlations"].pearson[A][A])
               ELSE statistics["correlations"].pearson[A][A].nan

\* a constant column without gaps beside a column with a missing value: NaN
\* on the diagonal of the first, 1.0 on the diagonal of the second
C7_Witness ==
    /\ Correlated
    /\ \E A, B \in Range(schema.numeric_columns) :
          /\ NUnique(df, A) = 1
          /\ Count(df, A) > 1
          /\ NullCount(df, A) = 0
          /\ statistics["correlations"].pearson[A][A].nan
          /\ NullCount(df, B) > 0
          /\ IsOne(statistics["correlations"].pearson[B][B])

\* the place of a category in the order of the generators
CategoryRank(cat) ==
    IF cat = "overview" THEN 1
    ELSE IF cat = "statistical" THEN 2
    ELSE IF cat = "quality" THEN 3
    ELSE IF cat = "correlation" THEN 4
    ELSE IF cat = "distribution" THEN 5
    ELSE IF cat = "outlier" THEN 6
    ELSE 0

\* generate_insights has returned its list
InsightsMade == pc = "compile" \/ Returned

\* C8: the insights are in the category order overview, statistical,
\* quality, correlation, distribution, outlier, and the first insight is the
\* overview insight with the numbers of rows and columns of the dataset.
C8_CategoryOrder ==
    InsightsMade =>
        /\ insights # <<>>
        /\ insights[1] = Insight("overview", "records", <<>>, <<NumRows(df.rows), Len(df.cols)>>)
        /\ \A k \in DOMAIN insights : CategoryRank(insights[k].cat) \in 1..6
        /\ \A k, l \in DOMAIN insights :
              k < l => CategoryRank(insights[k].cat) <= CategoryRank(insights[l].cat)

\* a list with insights of all six categories
C8_Witness ==
    /\ InsightsMade
    /\ {insights[k].cat : k \in DOMAIN insights}
           = {"overview", "statistical", "quality", "correlation", "distribution", "outlier"}

QualityBands == {"excellent", "good", "moderate", "poor"}

\* the overall missing percentage the quality insights read: 0 when the
\* summary has no missing-data summary
OverallMissing ==
    LET info == Get(statistics, "missing_data", EmptyDict)
    IN  Get(Get(info, "summary", EmptyDict), "overall_missing_percentage", <<0, 1>>)

\* the band of the percentage n / d, d > 0, by the integers
BandOf(n, d) ==
    IF n = 0 THEN "excellent"
    ELSE IF n < 5 * d THEN "good"
    ELSE IF n < 15 * d THEN "moderate"
    ELSE "poor"

\* C9: the insights hold exactly one quality band, the band of the overall
\* missing percentage p: 'excellent' for p = 0, 'good' for 0 < p < 5,
\* 'moderate' for 5 <= p < 15, 'poor' for p >= 15; a dataset without a
\* missing value reads 'excellent'.
C9_OneQualityBand ==
    InsightsMade =>
        LET bands == {k \in DOMAIN insights :
                         insights[k].cat = "quality" /\ insights[k].kind \in QualityBands}
        IN  /\ Cardinality(bands) = 1
            /\ \A k \in bands : insights[k].kind = BandOf(OverallMissing[1], OverallMissing[2])
            /\ (\A c \in Columns(df) : NullCount(df, c) = 0) =>
                   \A k \in bands : insights[k].kind = "excellent"

\* a percentage of exactly 5 reads 'moderate'
C9_Witness ==
    /\ InsightsMade
    /\ OverallMissing[1] = 5 * OverallMissing[2]
    /\ \E k \in DOMAIN insights : insights[k].cat = "quality" /\ insights[k].kind = "moderate"

\* the missing-data analysis has run on a frame with data
MissingAnalyzed ==
    /\ "missing_data" \in DOMAIN statistics
    /\ ~(IsNone(df) \/ IsEmpty(df))

\* the number of NaN cells of the rows S
RECURSIVE MissingCells(_)
MissingCells(S) ==
    IF S = {} THEN 0
    ELSE LET r == CHOOSE x \in S : TRUE
         IN  r.mult * Cardinality(r.na) + MissingCells(S \ {r})

OutliersAnalyzed ==
    /\ "outliers" \in DOMAIN statistics
    /\ ~(IsNone(df) \/ IsEmpty(df))

\* the value of a cell of column c as a rational
CellValue(r, c) == <<r.vals[c], df.scale[c]>>

\* the non-null rows of column c strictly outside its recorded bounds
OutsideBounds(c) ==
    {r \in NotNull(df.rows, c) :
        \/ RatLt(CellValue(r, c), statistics["outliers"][c].lower_bound)
        \/ RatLt(statistics["outliers"][c].upper_bound, CellValue(r, c))}

\* the series 10, 12, 12, 13, 12, 11, 14, 200
OutlierSeries == SeriesFrame(<<10, 12, 12, 13, 12, 11, 14, 200>>)

\* C11: for every numeric column with non-null data the bounds are
\* Q1 - 1.5 IQR and Q3 + 1.5 IQR, outlier_count is the number of non-null
\* values strictly below the lower or strictly above the upper bound (a value
\* equal to a bound is no outlier), outlier_percentage is outlier_count /
\* non-null count x 100, and has_outliers holds exactly when outlier_count > 0;
\* the series 10, 12, 12, 13, 12, 11, 14, 200 has the bounds 9.5 and 15.5 and
\* the single outlier 200.
C11_OutliersStrictlyOutside ==
    OutliersAnalyzed =>
        /\ \A c \in Range(schema.numeric_columns) :
              Count(df, c) > 0 => c \in DOMAIN statistics["outliers"]
        /\ \A c \in DOMAIN statistics["outliers"] :
              LET o   == statistics["outliers"][c]
                  Q1  == <<Quantile4(df.rows, c, 1), 4 * df.scale[c]>>
                  Q3  == <<Quantile4(df.rows, c, 3), 4 * df.scale[c]>>
                  IQR == RatSub(Q3, Q1)
              IN  /\ RatEq(o.lower_bound, RatSub(Q1, <<3 * IQR[1], 2 * IQR[2]>>))
                  /\ RatEq(o.upper_bound, RatSub(Q3, <<-3 * IQR[1], 2 * IQR[2]>>))
                  /\ o.outlier_count = NumRows(OutsideBounds(c))
                  /\ \A r \in NotNull(df.rows, c) :
                        (\/ RatEq(CellValue(r, c), o.lower_bound)
                         \/ RatEq(CellValue(r, c), o.upper_bound)) => r \notin OutsideBounds(c)
                  /\ RatEq(o.outlier_percentage, <<100 * o.outlier_count, Count(df, c)>>)
                  /\ o.has_outliers <=> o.outlier_count > 0
        /\ df = OutlierSeries =>
              /\ RatEq(statistics["outliers"]["a"].lower_bound, <<19, 2>>)
              /\ RatEq(statistics["outliers"]["a"].upper_bound, <<31, 2>>)
              /\ statistics["outliers"]["a"].outlier_count = 1
              /\ {r.vals["a"] : r \in OutsideBounds("a")} = {200}

\* the outliers of the series with the value 200 were counted
C11_Witness ==
    /\ OutliersAnalyzed
    /\ df = OutlierSeries
    /\ statistics["outliers"]["a"].outlier_count = 1
    /\ statistics["outliers"]["a"].has_outliers

\* a column with a value equal to a bound and a value outside the bounds
C11_ValueOnBound ==
    /\ OutliersAnalyzed
    /\ \E c \in DOMAIN statistics["outliers"] :
          /\ \E r \in NotNull(df.rows, c) :
                RatEq(CellValue(r, c), statistics["outliers"][c].upper_bound)
          /\ statistics["outliers"][c].outlier_count > 0

\* the descriptive statistics have been computed on a frame with data
DescriptiveAnalyzed ==
    /\ "descriptive_stats" \in DOMAIN statistics
    /\ ~(IsNone(df) \/ IsEmpty(df))

\* the sum over the pairs of non-null cells of column c of the squared
\* difference of their stored values: n times the sum of the squared
\* deviations from the mean
PairwiseSquares(c) ==
    LET S == NotNull(df.rows, c)
    IN  SumFn([p \in S \X S |->
                  p[1].mult * p[2].mult
                      * (p[1].vals[c] - p[2].vals[c]) * (p[1].vals[c] - p[2].vals[c])]) \div 2

\* the column 1, 2, 3, 4, 5
CountingSeries == SeriesFrame(<<1, 2, 3, 4, 5>>)

\* C12: the descriptive statistics of a numeric column are computed over its
\* non-null values only: count is their number, mean their sum / count,
\* median the middle of the sorted values, min and max the least and the
\* greatest, var the sum of the squared deviations from the mean divided by
\* count - 1 (ddof = 1), and iqr = q75 - q25; the column 1, 2, 3, 4, 5 gives
\* count 5, mean 3, median 3, var 2.5, min 1, max 5, q25 2, q75 4, iqr 2.
C12_DescriptiveOverNonNull ==
    DescriptiveAnalyzed =>
        /\ \A c \in DOMAIN statistics["descriptive_stats"] \cap Range(schema.numeric_columns) :
              LET st == statistics["descriptive_stats"][c]
                  S  == NotNull(df.rows, c)
                  n  == NumRows(S)
                  k  == df.scale[c]
                  V  == Distinct(df.rows, c)
              IN  /\ st.count = n
                  /\ n > 0
                  /\ RatEq(st.mean, <<Moment(S, c, 1), n * k>>)
                  /\ RatEq(st.median,
                           <<Kth(df.rows, c, (n - 1) \div 2) + Kth(df.rows, c, n \div 2), 2 * k>>)
                  /\ \E v \in V : RatEq(st.min, <<v, k>>) /\ \A w \in V : v <= w
                  /\ \E v \in V : RatEq(st.max, <<v, k>>) /\ \A w \in V : w <= v
                  /\ n > 1 => RatEq(st.var, <<PairwiseSquares(c), n * (n - 1) * k * k>>)
                  /\ RatEq(st.iqr, RatSub(st.q75, st.q25))
                  /\ ~RatLt(st.q25, st.min) /\ ~RatLt(st.median, st.q25)
                  /\ ~RatLt(st.q75, st.median) /\ ~RatLt(st.max, st.q75)
        /\ df = CountingSeries /\ "a" \notin caught =>
              LET st == statistics["descriptive_stats"]["a"]
              IN  /\ st.count = 5
                  /\ RatEq(st.mean, <<3, 1>>)
                  /\ RatEq(st.median, <<3, 1>>)
                  /\ RatEq(st.var, <<5, 2>>)
                  /\ RatEq(st.min, <<1, 1>>)
                  /\ RatEq(st.max, <<5, 1>>)
                  /\ RatEq(st.q25, <<2, 1>>)
                  /\ RatEq(st.q75, <<4, 1>>)
                  /\ RatEq(st.iqr, <<2, 1>>)

\* the statistics of the column 1, 2, 3, 4, 5 were computed
C12_Witness ==
    /\ DescriptiveAnalyzed
    /\ df = CountingSeries
    /\ "a" \in DOMAIN statistics["descriptive_stats"]
    /\ statistics["descriptive_stats"]["a"].count = 5

\* a column with gaps and more than one value was described
C12_GapsIgnored ==
    /\ DescriptiveAnalyzed
    /\ \E c \in DOMAIN statistics["descriptive_stats"] \cap Range(schema.numeric_columns) :
          /\ NullCount(df, c) > 0
          /\ statistics["descriptive_stats"][c].count > 1
          /\ statistics["descriptive_stats"][c].var[1] > 0

\* _analyze_schema has returned the schema of df
SchemaAnalyzed ==
    \/ pc \in {"summary", "correlation", "distribution", "missing", "outliers",
               "insights", "compile"}
    \/ pc = "done" /\ raised \notin {"ValueError", "ZeroDivisionError"}

\* the lists of the schema by the kind they hold
SchemaLists ==
    [numeric     |-> schema.numeric_columns,
     categorical |-> schema.categorical_columns,
     datetime    |-> schema.datetime_columns,
     text        |-> schema.text_columns,
     boolean     |-> schema.boolean_columns]

\* the kinds whose list holds column c
ListedAs(c) == {k \in DOMAIN SchemaLists : c \in Range(SchemaLists[k])}

\* C13: schema inference puts every column into exactly one list, by the
\* first matching dtype test in the order datetime, boolean, numeric, object,
\* an object column being categorical when distinct / row_count < 0.5 and
\* distinct < 50 (both strict) and text otherwise, and any other dtype being
\* categorical; the count of every kind is the length of its list and the
\* counts sum to the number of columns.
C13_SchemaByFirstMatch ==
    SchemaAnalyzed =>
        /\ \A c \in Columns(df) :
              LET d        == df.dtype[c]
                  distinct == NUnique(df, c)
                  rows     == NumRows(df.rows)
              IN  ListedAs(c) =
                     IF d = "datetime64" THEN {"datetime"}
                     ELSE IF d = "bool" THEN {"boolean"}
                     ELSE IF d = "float64" THEN {"numeric"}
                     ELSE IF d = "object"
                          THEN IF 2 * distinct < rows /\ distinct < 50
                               THEN {"categorical"} ELSE {"text"}
                     ELSE {"categorical"}
        /\ \A k \in DOMAIN SchemaLists :
              /\ schema.summary[k] = Len(SchemaLists[k])
              /\ Cardinality(Range(SchemaLists[k])) = Len(SchemaLists[k])
              /\ Range(SchemaLists[k]) \subseteq Columns(df)
        /\ SumFn(schema.summary) = Len(df.cols)

\* an object column of 50 distinct values in 150 rows was reported as text
C13_Witness ==
    /\ SchemaAnalyzed
    /\ "b" \in Columns(df)
    /\ df.dtype["b"] = "object"
    /\ NUnique(df, "b") = 50
    /\ NumRows(df.rows) = 150
    /\ schema.text_columns = <<"b">>
    /\ schema.summary.text = 1

\* an object column whose distinct values are exactly half its rows is text
C13_HalfDistinct ==
    /\ SchemaAnalyzed
    /\ \E c \in Range(schema.text_columns) :
          /\ 2 * NUnique(df, c) = NumRows(df.rows)
          /\ NUnique(df, c) < 50

\* an object column of 49 distinct values in 147 rows is categorical
C13_JustBelowLimit ==
    /\ SchemaAnalyzed
    /\ \E c \in Range(schema.categorical_columns) :
          df.dtype[c] = "object" /\ NUnique(df, c) = 49

\* schema inference was asked for a frame without rows that has an object
\* column, and is over
EmptyObjectFrameInferred ==
    /\ NumRows(df.rows) = 0
    /\ \E c \in Columns(df) : df.dtype[c] = "object"
    /\ pc \notin {"load", "schema"}
    /\ raised # "ValueError"

\* C14: schema inference on a dataset with row_count = 0 does not fail with a
\* division by zero: it completes, every object column of the dataset is
\* reported as text, and the counts of the kinds are those of the lists.
C14_EmptyDatasetInferred ==
    EmptyObjectFrameInferred =>
        /\ raised # "ZeroDivisionError"
        /\ SchemaAnalyzed
        /\ \A c \in Columns(df) : df.dtype[c] = "object" => ListedAs(c) = {"text"}
        /\ \A k \in DOMAIN SchemaLists : schema.summary[k] = Len(SchemaLists[k])

\* schema inference on a frame without rows ended with ZeroDivisionError
C14_Witness ==
    /\ EmptyObjectFrameInferred
    /\ pc = "done"
    /\ outcome = "raised"
    /\ raised = "ZeroDivisionError"
    /\ schema = NoSchema

\* whenever schema inference returns on a frame without rows, the frame has
\* no object column
C14_EmptyNeedsNoObjectColumn ==
    (SchemaAnalyzed /\ NumRows(df.rows) = 0 /\ ~IsNone(df)) =>
        \A c \in Columns(df) : df.dtype[c] # "object"

\* the profiles that hold one entry per analysed numeric column
ColumnProfiles == {"descriptive_stats", "distributions", "outliers"}

\* the numeric columns of df without a single value
AllMissing == {c \in Range(schema.numeric_columns) : c \in Columns(df) /\ Count(df, c) = 0}

\* C15: no value is made up for data that could not be computed: a numeric
\* column whose values are all missing has no entry in descriptive_stats, in
\* distributions or in outliers, and a column whose computation failed has no
\* entry in the profile of the analyzer where it failed.
C15_NothingFabricated ==
    /\ \A p \in ColumnProfiles \cap DOMAIN statistics :
          \A c \in AllMissing : c \notin DOMAIN statistics[p]
    /\ \A an \in Range(Analyzers) :
          \A c \in Faulty(an) :
              ProfileOf(an) \in DOMAIN statistics => c \notin DOMAIN statistics[ProfileOf(an)]

\* a finished run on a frame with an all-missing numeric column beside a
\* column with data whose descriptive statistics failed
C15_Witness ==
    /\ Returned
    /\ AllMissing # {}
    /\ \E c \in AllMissing : NullCount(df, c) > 0
    /\ \E c \in Faulty("descriptive") :
          /\ c \in DOMAIN statistics["outliers"]
          /\ c \notin DOMAIN statistics["descriptive_stats"]

\* C16: within one analysis call the stages are strictly ordered: a profile
\* is written only when the schema of the dataset has been produced, the
\* insights are generated only when all five profiles have been produced, and
\* the result is assembled and returned only when the insights exist; no
\* stage changes what an earlier stage produced.
C16_StagesInOrder ==
    [][/\ (statistics' # statistics /\ statistics' # EmptyDict) =>
              /\ SchemaAnalyzed
              /\ schema = analyze_schema(df)
              /\ schema' = schema
              /\ insights = <<>> /\ insights' = <<>>
       /\ (insights' # insights /\ insights' # <<>>) =>
              /\ DOMAIN statistics = Profiles
              /\ statistics' = statistics /\ schema' = schema
       /\ (outcome' = "returned" /\ outcome # "returned") =>
              /\ insights' # <<>>
              /\ DOMAIN statistics' = Profiles
              /\ statistics' = statistics /\ schema' = schema
       /\ (response' = OkResponse /\ response # OkResponse) =>
              /\ insights # <<>>
              /\ insights' = insights]_vars

\* a run of an uploaded file went through all stages and returned its result
C16_Witness ==
    /\ Returned
    /\ entry = "upload"
    /\ response = OkResponse
    /\ SchemaAnalyzed
    /\ schema = analyze_schema(df)
    /\ DOMAIN statistics = Profiles
    /\ statistics["outliers"] # EmptyDict
    /\ insights # <<>>

\* the distribution analysis has run on a frame with data
DistributionsAnalyzed ==
    /\ "distributions" \in DOMAIN statistics
    /\ ~(IsNone(df) \/ IsEmpty(df))

\* the shape label recorded for column c
ShapeLabel(c) == statistics["distributions"][c].distribution_type

\* |skew| < 0.5 and |kurtosis| < 0.5 for column c
LooksNormal(c) ==
    /\ SkewAbsBelow(ShapeOf(df, c), 1, 2)
    /\ KurtosisAbove(ShapeOf(df, c), -1, 2)
    /\ KurtosisBelow(ShapeOf(df, c), 1, 2)

\* C17: a numeric column has a distribution entry exactly when it has more
\* than 10 non-null values (a column of exactly 10 is skipped), and the shape
\* label of an entry is the first match of: |skew| < 0.5 and |kurtosis| < 0.5
\* normal, skew > 1 right_skewed, skew < -1 left_skewed, kurtosis > 3
\* heavy_tailed, kurtosis < -1 light_tailed, else unknown; a column with
\* skew > 1 and kurtosis > 3 is right_skewed, never heavy_tailed.
C17_EntryAndShapeByFirstMatch ==
    DistributionsAnalyzed =>
        /\ \A c \in Range(schema.numeric_columns) :
              c \in DOMAIN statistics["distributions"] <=> Count(df, c) > 10
        /\ DOMAIN statistics["distributions"] \subseteq Range(schema.numeric_columns)
        /\ \A c \in DOMAIN statistics["distributions"] :
              LET sh    == ShapeOf(df, c)
                  right == SkewAbove(sh, 1, 1)
                  left  == SkewBelowMinus(sh, 1, 1)
                  heavy == KurtosisAbove(sh, 3, 1)
                  light == KurtosisBelow(sh, -1, 1)
              IN  /\ LooksNormal(c) <=> ShapeLabel(c) = "normal"
                  /\ (~LooksNormal(c) /\ right) <=> ShapeLabel(c) = "right_skewed"
                  /\ (~LooksNormal(c) /\ left) <=> ShapeLabel(c) = "left_skewed"
                  /\ (~LooksNormal(c) /\ ~right /\ ~left /\ heavy)
                         <=> ShapeLabel(c) = "heavy_tailed"
                  /\ (~LooksNormal(c) /\ ~right /\ ~left /\ ~heavy /\ light)
                         <=> ShapeLabel(c) = "light_tailed"
                  /\ (~LooksNormal(c) /\ ~right /\ ~left /\ ~heavy /\ ~light)
                         <=> ShapeLabel(c) = "unknown"
                  /\ (right /\ heavy) => ShapeLabel(c) = "right_skewed"

\* a column with skew > 1 and kurtosis > 3 was labelled right_skewed
C17_Witness ==
    /\ DistributionsAnalyzed
    /\ \E c \in DOMAIN statistics["distributions"] :
          /\ SkewAbove(ShapeOf(df, c), 1, 1)
          /\ KurtosisAbove(ShapeOf(df, c), 3, 1)
          /\ ShapeLabel(c) = "right_skewed"

\* a numeric column of exactly 10 non-null values was skipped
C17_TenValuesSkipped ==
    /\ DistributionsAnalyzed
    /\ \E c \in Range(schema.numeric_columns) :
          Count(df, c) = 10 /\ c \notin DOMAIN statistics["distributions"]

\* every label is given to some column
C17_AllShapes ==
    \A l \in {"normal", "right_skewed", "left_skewed", "heavy_tailed", "light_tailed", "unknown"} :
        \E f \in ShapeFrames : Count(f, "a") > 10 /\ identify_distribution_type(f, "a") = l

\* the sums of a column of two values agree with the sums of the general case
C17_TwoValuesAgree ==
    \A c \in Columns(df) :
        LET S == NotNull(df.rows, c)
        IN  (df.dtype[c] = "float64" /\ Cardinality(Distinct(S, c)) = 2 /\ NumRows(S) <= 30) =>
                /\ CentralMoments(S, c).sign = CentralMomentsOfTwo(S, c).sign
                /\ RatEq(CentralMoments(S, c).skew2, CentralMomentsOfTwo(S, c).skew2)
                /\ RatEq(CentralMoments(S, c).kurt, CentralMomentsOfTwo(S, c).kurt)

\* the insights of the correlation category, in their order
CorrelationInsights == SelectSeq(insights, LAMBDA i : i.cat = "correlation")

\* the strong-correlation records of the finished summary: none when the
\* correlation structure is empty
StrongRecords ==
    IF "correlations" \in DOMAIN statistics
           /\ "strong_correlations" \in DOMAIN statistics["correlations"]
    THEN statistics["correlations"]["strong_correlations"]
    ELSE <<>>

\* C18: when the summary holds no strong-correlation record, the correlation
\* category of the insights is exactly one 'no strong correlation' insight;
\* this includes a dataset with fewer than two numeric columns, whose
\* correlation structure is empty.
C18_NoneGivesOneInsight ==
    (InsightsMade /\ StrongRecords = <<>>) =>
        /\ Len(CorrelationInsights) = 1
        /\ CorrelationInsights[1].kind = "none"
        /\ CorrelationInsights[1].names = <<>>

\* insights for a frame with data and a single numeric column, whose
\* correlation structure is empty
C18_Witness ==
    /\ InsightsMade
    /\ ~(IsNone(df) \/ IsEmpty(df))
    /\ Len(schema.numeric_columns) = 1
    /\ statistics["correlations"] = EmptyDict
    /\ Len(CorrelationInsights) = 1
    /\ CorrelationInsights[1].kind = "none"

\* insights for a frame with several numeric columns none of which are
\* strongly correlated
C18_EmptyList ==
    /\ InsightsMade
    /\ Len(schema.numeric_columns) > 1
    /\ "strong_correlations" \in DOMAIN statistics["correlations"]
    /\ statistics["correlations"]["strong_correlations"] = <<>>
    /\ \E A, B \in Range(schema.numeric_columns) :
          A # B /\ ~statistics["correlations"]["pearson"][A][B].nan
    /\ CorrelationInsights = <<Insight("correlation", "none", <<>>, <<>>)>>

\* the square of a coefficient as a rational
SquareOf(r) == <<r.num * r.num, r.vx * r.vy>>

\* |r| < |s| for two coefficients that are numbers
AbsLess(r, s) == RatLt(SquareOf(r), SquareOf(s))

\* the strong-correlation records an insight reports
Reported ==
    {k \in DOMAIN StrongRecords :
        \E i \in DOMAIN CorrelationInsights :
            CorrelationInsights[i].names = <<StrongRecords[k].column1, StrongRecords[k].column2>>}

\* every correlation insight reports a record, by the sign of its coefficient
PhrasedBySign ==
    \A i \in DOMAIN CorrelationInsights :
        \E k \in DOMAIN StrongRecords :
            /\ CorrelationInsights[i].names
                   = <<StrongRecords[k].column1, StrongRecords[k].column2>>
            /\ StrongRecords[k].correlation.num > 0 => CorrelationInsights[i].kind = "positive"
            /\ StrongRecords[k].correlation.num < 0 => CorrelationInsights[i].kind = "negative"

\* C19: with n >= 1 strong-correlation records exactly min(3, n) correlation
\* insights are emitted, each reporting one record as 'positive' when its
\* coefficient is > 0 and as 'negative' when it is < 0, and the records
\* reported are the top three: no record left out has a greater |coefficient|
\* than a record reported.
C19_TopThreeReported ==
    (InsightsMade /\ Len(StrongRecords) >= 1) =>
        /\ Len(CorrelationInsights) = Min2(3, Len(StrongRecords))
        /\ Cardinality(Reported) = Min2(3, Len(StrongRecords))
        /\ PhrasedBySign
        /\ \A k \in Reported : \A j \in DOMAIN StrongRecords \ Reported :
              ~AbsLess(StrongRecords[k].correlation, StrongRecords[j].correlation)

\* min(3, n) insights phrased by sign, reporting the first three records in
\* the order of the list, whatever their coefficients
C19_FirstThreeReported ==
    (InsightsMade /\ Len(StrongRecords) >= 1) =>
        /\ Len(CorrelationInsights) = Min2(3, Len(StrongRecords))
        /\ PhrasedBySign
        /\ Reported = 1..Min2(3, Len(StrongRecords))
        /\ \A i \in DOMAIN CorrelationInsights :
              CorrelationInsights[i].names
                  = <<StrongRecords[i].column1, StrongRecords[i].column2>>

\* six records, and a record left out has a greater |coefficient| than the
\* three reported
C19_Witness ==
    /\ InsightsMade
    /\ Len(StrongRecords) = 6
    /\ Len(CorrelationInsights) = 3
    /\ \E j \in DOMAIN StrongRecords \ Reported :
          \A k \in Reported : AbsLess(StrongRecords[k].correlation, StrongRecords[j].correlation)

\* a negative and a positive coefficient were reported
C19_BothSigns ==
    /\ InsightsMade
    /\ \E i, j \in DOMAIN CorrelationInsights :
          CorrelationInsights[i].kind = "positive" /\ CorrelationInsights[j].kind = "negative"

\* the kinds of the central-tendency insight
CentralKinds == {"right_skewed", "left_skewed", "symmetric"}

\* the positions of the statistical insights about column c
StatisticalAbout(c) ==
    {k \in DOMAIN insights : insights[k].cat = "statistical" /\ insights[k].names = <<c>>}

\* d = |mean - median| / max(|mean|, |median|, 1) > 0.10 for the statistics st
FarApart(st) ==
    LET diff == RatAbs(RatSub(st.mean, st.median))
        big  == RatMax(RatMax(RatAbs(st.mean), RatAbs(st.median)), <<1, 1>>)
    IN  RatLt(<<big[1], 10 * big[2]>>, diff)

\* C20: every one of the first 5 numeric columns that has descriptive
\* statistics gets exactly one central-tendency insight, decided by
\* d = |mean - median| / max(|mean|, |median|, 1): right-skewed for d > 0.10
\* and mean > median, left-skewed for d > 0.10 and mean < median, symmetric
\* for d <= 0.10; a numeric column after the fifth and a categorical column
\* after the third get no statistical insight.
C20_CentralTendencyOfFirstFive ==
    InsightsMade =>
        /\ \A i \in DOMAIN schema.numeric_columns :
              LET c       == schema.numeric_columns[i]
                  central == {k \in StatisticalAbout(c) : insights[k].kind \in CentralKinds}
              IN  /\ (i <= 5 /\ c \in DOMAIN statistics["descriptive_stats"]) =>
                         LET st == statistics["descriptive_stats"][c]
                         IN  /\ Cardinality(central) = 1
                             /\ \A k \in central :
                                   /\ (FarApart(st) /\ RatLt(st.median, st.mean))
                                          <=> insights[k].kind = "right_skewed"
                                   /\ (FarApart(st) /\ RatLt(st.mean, st.median))
                                          <=> insights[k].kind = "left_skewed"
                                   /\ ~FarApart(st) <=> insights[k].kind = "symmetric"
                  /\ i > 5 => StatisticalAbout(c) = {}
        /\ \A i \in DOMAIN schema.categorical_columns :
              i > 3 => StatisticalAbout(schema.categorical_columns[i]) = {}

\* six numeric and four categorical columns, all with descriptive statistics:
\* the first five and the first three have statistical insights, the sixth
\* and the fourth have none
C20_Witness ==
    /\ InsightsMade
    /\ Len(schema.numeric_columns) = 6
    /\ Len(schema.categorical_columns) = 4
    /\ Range(schema.numeric_columns) \cup Range(schema.categorical_columns)
           \subseteq DOMAIN statistics["descriptive_stats"]
    /\ \A i \in 1..5 : StatisticalAbout(schema.numeric_columns[i]) # {}
    /\ \A i \in 1..3 : StatisticalAbout(schema.categorical_columns[i]) # {}
    /\ StatisticalAbout(schema.numeric_columns[6]) = {}
    /\ StatisticalAbout(schema.categorical_columns[4]) = {}

\* a column with d exactly 0.10 is reported as symmetric
C20_ExactlyTenPercent ==
    /\ InsightsMade
    /\ \E c \in DOMAIN statistics["descriptive_stats"] \cap Range(schema.numeric_columns) :
          LET st   == statistics["descriptive_stats"][c]
              diff == RatAbs(RatSub(st.mean, st.median))
              big  == RatMax(RatMax(RatAbs(st.mean), RatAbs(st.median)), <<1, 1>>)
          IN  /\ RatEq(<<big[1], 10 * big[2]>>, diff)
              /\ \E k \in StatisticalAbout(c) : insights[k].kind = "symmetric"

\* a right-skewed and a left-skewed column were reported
C20_BothSides ==
    /\ InsightsMade
    /\ \E j, k \in DOMAIN insights :
          insights[j].kind = "right_skewed" /\ insights[k].kind = "left_skewed"

\* the kinds of the variability insight
VariabilityKinds == {"high_variability", "low_variability"}

\* the kinds of the statistical insights about column c
KindsAbout(c) == {insights[k].kind : k \in StatisticalAbout(c)}

\* the first five numeric columns that have descriptive statistics
DescribedNumeric ==
    {c \in Range(Take(schema.numeric_columns, 5)) : c \in DOMAIN statistics["descriptive_stats"]}

\* CV = std / |mean| > 1 and CV < 0.1 for a mean that is not 0, by the squares
CVAboveOne(st) == st.mean[1] # 0 /\ RatLt(<<st.mean[1] * st.mean[1], st.mean[2] * st.mean[2]>>, st.var)

CVBelowTenth(st) ==
    st.mean[1] # 0
        /\ RatLt(<<100 * st.var[1], st.var[2]>>, <<st.mean[1] * st.mean[1], st.mean[2] * st.mean[2]>>)

\* C21: the variability insight of a numeric column comes from
\* CV = std / |mean| only if the mean is not 0: 'high variability' exactly
\* when mean # 0 and CV > 1, 'low variability' exactly when mean # 0 and
\* CV < 0.1, never both, and a column whose mean is exactly 0 gets no
\* variability insight, whatever its std.
C21_VariabilityOnlyForNonzeroMean ==
    InsightsMade =>
        \A c \in DescribedNumeric :
            LET st == statistics["descriptive_stats"][c]
            IN  /\ "high_variability" \in KindsAbout(c) <=> CVAboveOne(st)
                /\ "low_variability" \in KindsAbout(c) <=> CVBelowTenth(st)
                /\ ~(VariabilityKinds \subseteq KindsAbout(c))
                /\ st.mean[1] = 0 => KindsAbout(c) \cap VariabilityKinds = {}

\* a column with mean 0 and a positive variance was reported as of low
\* variability
C21_Witness ==
    /\ InsightsMade
    /\ \E c \in DescribedNumeric :
          /\ statistics["descriptive_stats"][c].mean[1] = 0
          /\ statistics["descriptive_stats"][c].var[1] > 0
          /\ "low_variability" \in KindsAbout(c)

\* what the code does: a mean of 0 is treated as CV = 0, which is below 0.1
C21_ZeroMeanIsLowVariability ==
    InsightsMade =>
        \A c \in DescribedNumeric :
            LET st == statistics["descriptive_stats"][c]
            IN  /\ "high_variability" \in KindsAbout(c) <=> CVAboveOne(st)
                /\ "low_variability" \in KindsAbout(c) <=> (st.mean[1] = 0 \/ CVBelowTenth(st))
                /\ ~(VariabilityKinds \subseteq KindsAbout(c))

\* the first three categorical columns that have descriptive statistics
DescribedCategorical ==
    {c \in Range(Take(schema.categorical_columns, 3)) :
        c \in DOMAIN statistics["descriptive_stats"]}

\* unique_count / count > 0.8 and most_frequent_count / count > 0.7
Diverse(st) == 10 * st.unique_count > 8 * st.count

Dominated(st) == 10 * st.most_frequent_count > 7 * st.count

\* C22: every one of the first 3 categorical columns that has descriptive
\* statistics gets exactly one insight, by the first match:
\* unique_count / count > 0.8 gives 'high diversity', else
\* most_frequent_count / count > 0.7 gives 'dominated by' with the most
\* frequent value, else 'balanced'; when both tests hold the column is
\* reported as of high diversity.
C22_CategoricalByFirstMatch ==
    InsightsMade =>
        \A c \in DescribedCategorical :
            LET st == statistics["descriptive_stats"][c]
            IN  /\ Cardinality(StatisticalAbout(c)) = 1
                /\ \A k \in StatisticalAbout(c) :
                      /\ Diverse(st) <=> insights[k].kind = "high_diversity"
                      /\ (~Diverse(st) /\ Dominated(st)) <=> insights[k].kind = "dominated"
                      /\ (~Diverse(st) /\ ~Dominated(st)) <=> insights[k].kind = "balanced"
                      /\ insights[k].kind = "dominated" =>
                            /\ insights[k].nums = <<st.most_frequent>>
                            /\ Freq(df.rows, c, st.most_frequent) = st.most_frequent_count
                            /\ \A v \in Distinct(df.rows, c) :
                                  Freq(df.rows, c, v) <= st.most_frequent_count

\* a categorical column that passes both tests was reported as of high
\* diversity
C22_Witness ==
    /\ InsightsMade
    /\ \E c \in DescribedCategorical :
          /\ Diverse(statistics["descriptive_stats"][c])
          /\ Dominated(statistics["descriptive_stats"][c])
          /\ KindsAbout(c) = {"high_diversity"}

\* a dominated column was reported
C22_Dominated ==
    InsightsMade /\ \E c \in DescribedCategorical : KindsAbout(c) = {"dominated"}

\* a balanced column was reported
C22_Balanced ==
    InsightsMade /\ \E c \in DescribedCategorical : KindsAbout(c) = {"balanced"}

\* the insights of the overview category, in their order
OverviewInsights == SelectSeq(insights, LAMBDA i : i.cat = "overview")

\* the positions of the overview insights of kind k
OverviewOf(k) == {i \in DOMAIN OverviewInsights : OverviewInsights[i].kind = k}

\* the overview opens with the row and column counts, closes with the memory
\* footprint, and between them holds one count insight for every kind of K
\* that has a column, and nothing for the other kinds
OverviewReports(K) ==
    /\ Len(OverviewInsights) >= 2
    /\ OverviewInsights[1].kind = "records"
    /\ OverviewInsights[1].nums = <<NumRows(df.rows), Len(df.cols)>>
    /\ OverviewInsights[Len(OverviewInsights)].kind = "memory"
    /\ OverviewOf("records") = {1}
    /\ OverviewOf("memory") = {Len(OverviewInsights)}
    /\ \A k \in DOMAIN schema.summary :
          IF k \in K /\ schema.summary[k] > 0
          THEN /\ Cardinality(OverviewOf(k)) = 1
               /\ \A i \in OverviewOf(k) : OverviewInsights[i].nums = <<schema.summary[k]>>
          ELSE OverviewOf(k) = {}

\* C23: the overview category reports the row and column counts, then one
\* count insight for every kind among numeric, categorical, datetime, text
\* and boolean that has at least one column in the schema, and none for a
\* kind without columns, then the estimated memory footprint.
C23_OverviewOfEveryKind ==
    InsightsMade => OverviewReports({"numeric", "categorical", "datetime", "text", "boolean"})

\* what the code does: only the numeric, categorical and datetime kinds are
\* reported
C23_OverviewOfThreeKinds ==
    InsightsMade => OverviewReports({"numeric", "categorical", "datetime"})

\* insights for a frame with a boolean column, whose overview does not
\* mention the boolean kind
C23_Witness ==
    /\ InsightsMade
    /\ schema.summary.boolean > 0
    /\ OverviewOf("boolean") = {}
    /\ OverviewOf("numeric") # {}

\* insights for a frame with a text column, whose overview does not mention
\* the text kind
C23_TextUnreported ==
    /\ InsightsMade
    /\ schema.summary.text > 0
    /\ OverviewOf("text") = {}

\* the insights of the outlier category, in their order
OutlierInsights == SelectSeq(insights, LAMBDA i : i.cat = "outlier")

\* the columns of the outlier profile in the order of the profile
ProfileOrder ==
    SelectSeq(schema.numeric_columns, LAMBDA c : c \in DOMAIN statistics["outliers"])

OutlierPercentage(c) == statistics["outliers"][c].outlier_percentage

\* the columns with an outlier_percentage of exactly 0, and those above 5
CleanColumns == SelectSeq(ProfileOrder, LAMBDA c : OutlierPercentage(c)[1] = 0)

HighColumns == SelectSeq(ProfileOrder, LAMBDA c : RatLt(<<5, 1>>, OutlierPercentage(c)))

\* the columns an outlier insight of kind k names
NamedBy(k) ==
    UNION {Range(OutlierInsights[i].names) :
              i \in {j \in DOMAIN OutlierInsights : OutlierInsights[j].kind = k}}

\* C24: the outlier category is at most one 'clean' insight naming up to 3
\* columns whose outlier_percentage is exactly 0, followed by at most 3
\* flagged insights, one for each of the first three columns in profile order
\* whose outlier_percentage is > 5, each with that percentage; a column with
\* 0 < outlier_percentage <= 5 is named in neither, and no column in both.
C24_CleanThenFlagged ==
    InsightsMade =>
        LET clean == IF CleanColumns = <<>> THEN 0 ELSE 1
            top   == Take(HighColumns, 3)
        IN  /\ Len(OutlierInsights) = clean + Len(top)
            /\ clean = 1 =>
                  /\ OutlierInsights[1].kind = "clean"
                  /\ OutlierInsights[1].names = Take(CleanColumns, 3)
            /\ \A k \in 1..Len(top) :
                  /\ OutlierInsights[clean + k].kind = "flagged"
                  /\ OutlierInsights[clean + k].names = <<top[k]>>
                  /\ RatEq(<<OutlierInsights[clean + k].nums[1], OutlierInsights[clean + k].nums[2]>>,
                           OutlierPercentage(top[k]))
            /\ \A c \in DOMAIN statistics["outliers"] :
                  (OutlierPercentage(c)[1] > 0 /\ ~RatLt(<<5, 1>>, OutlierPercentage(c))) =>
                      c \notin NamedBy("clean") \cup NamedBy("flagged")
            /\ NamedBy("clean") \cap NamedBy("flagged") = {}

\* six columns above 5 percent, the first three of them flagged
C24_Witness ==
    /\ InsightsMade
    /\ Len(HighColumns) = 6
    /\ Len(OutlierInsights) = 3
    /\ \A k \in 1..3 : OutlierInsights[k].names = <<HighColumns[k]>>

\* six clean columns, three of them named
C24_ThreeOfSixClean ==
    /\ InsightsMade
    /\ Len(CleanColumns) = 6
    /\ OutlierInsights = <<Insight("outlier", "clean", Take(CleanColumns, 3), <<>>)>>

\* a column with exactly 5 percent of outliers is named by no insight
C24_ExactlyFivePercent ==
    /\ InsightsMade
    /\ \E c \in DOMAIN statistics["outliers"] : RatEq(OutlierPercentage(c), <<5, 1>>)
    /\ OutlierInsights = <<>>

\* a clean column beside a flagged one
C24_CleanAndFlagged ==
    /\ InsightsMade
    /\ NamedBy("clean") # {}
    /\ NamedBy("flagged") # {}

\* ceil(log2(n) + 1) for 1 <= n <= 2^30: the least b with 2^(b - 1) >= n
Sturges(n) == CHOOSE b \in 1..31 : Power(2, b - 1) >= n /\ (b = 1 \/ Power(2, b - 2) < n)

\* the bin count recorded for column c
BinsOf(c) == statistics["distributions"][c].histogram_bins

\* C25: the recommended histogram bin count of a column with n non-null
\* values is ceil(log2(n) + 1) clamped to [5, 50]: for every analyzed column
\* (n > 10) it lies in 5..50, equals the unclamped value of Sturges' rule
\* whenever that value is within 5..50, and is non-decreasing in n.
C25_SturgesClamped ==
    DistributionsAnalyzed =>
        \A c \in DOMAIN statistics["distributions"] :
            LET n == Count(df, c)
            IN  /\ n > 10
                /\ BinsOf(c) \in 5..50
                /\ Sturges(n) \in 5..50 => BinsOf(c) = Sturges(n)
                /\ calculate_optimal_bins(n - 1) <= BinsOf(c)
                /\ BinsOf(c) <= calculate_optimal_bins(n + 1)
                /\ \A m \in 1..64 :
                      /\ m <= n => calculate_optimal_bins(m) <= BinsOf(c)
                      /\ calculate_optimal_bins(m) <= calculate_optimal_bins(m + 1)
                /\ \A d \in DOMAIN statistics["distributions"] :
                      Count(df, d) <= n => BinsOf(d) <= BinsOf(c)

\* a column of more than 5000 values got the 14 bins of Sturges' rule
C25_Witness ==
    /\ DistributionsAnalyzed
    /\ \E c \in DOMAIN statistics["distributions"] :
          /\ Count(df, c) > SampleCap
          /\ BinsOf(c) = 14
          /\ Sturges(Count(df, c)) = 14


\* thread t has gone through _init_components without assigning anything,
\* because it found the flag set
Skipped(t) == threads[t].pc \in {"use", "done"} /\ threads[t].assigned = 0

\* every component attribute of engine e is assigned
AllAssigned(e) == \A a \in ComponentNames : engines[e][a] # 0

\* C26: under any interleaving of concurrent analyze_dataset and
\* get_chart_generator calls on an AnalysisEngine, whenever
\* _components_initialized is true all four components are already assigned,
\* so a caller that skips the initialisation because the flag is set never
\* reads an unassigned component.
C26_FlagAfterComponents ==
    /\ \A e \in DOMAIN engines : engines[e].components_initialized => AllAssigned(e)
    /\ \A t \in Requests :
          /\ Skipped(t) => AllAssigned(threads[t].engine)
          /\ threads[t].pc = "done" => \A a \in DOMAIN threads[t].got : threads[t].got[a] # 0

\* a thread skipped the initialisation that another thread made and read
\* all four components of the engine
C26_Witness ==
    \E t, u \in Requests :
        /\ t # u
        /\ threads[t].pc = "done"
        /\ threads[t].assigned = 0
        /\ threads[t].route = "analyze_dataset"
        /\ DOMAIN threads[t].got = ComponentNames
        /\ threads[u].engine = threads[t].engine
        /\ threads[u].assigned = Len(InitOrder)

\* a thread tests the flag of an engine while another thread is between two
\* of the assignments of lines 26-30
C26_TestedDuringInitialisation ==
    \E t, u \in Requests :
        /\ threads[t].pc = "test_components"
        /\ threads[u].pc = "assign"
        /\ threads[u].assigned \in 1..4
        /\ threads[u].engine = threads[t].engine


\* the threads that constructed component a of engine e
Builders(e, a) ==
    {u \in Requests : /\ threads[u].engine = e
                      /\ \E i \in 1..threads[u].assigned : InitOrder[i] = a}

\* the threads whose get_analysis_engine call has returned
Callers == {t \in Requests : threads[t].engine # 0}

\* the get_chart_generator calls that have returned
ChartCalls == {t \in Requests : threads[t].pc = "done" /\ threads[t].route = "get_chart_generator"}

\* get_analysis_engine constructs at most one AnalysisEngine and every
\* caller receives the same instance
C27_OneEngine ==
    /\ Cardinality(DOMAIN engines) <= 1
    /\ \A t, u \in Callers : threads[t].engine = threads[u].engine

\* _init_components constructs each component at most once per engine, and
\* two get_chart_generator calls on one engine return the same ChartGenerator
C27_OneOfEachComponent ==
    /\ \A e \in DOMAIN engines : \A a \in ComponentNames : Cardinality(Builders(e, a)) <= 1
    /\ \A t, u \in ChartCalls :
          threads[t].engine = threads[u].engine
              => threads[t].got["chart_generator"] = threads[u].got["chart_generator"]

\* C27: the lazily initialised singletons are created at most once under
\* concurrent requests: get_analysis_engine constructs at most one
\* AnalysisEngine and every caller receives the same instance, and
\* _init_components constructs each component at most once per engine, so two
\* get_chart_generator calls on the same engine always return the same
\* ChartGenerator instance.
C27_SingletonsCreatedOnce == C27_OneEngine /\ C27_OneOfEachComponent

\* two get_chart_generator calls on one engine returned different
\* ChartGenerator instances
C27_Witness ==
    \E t, u \in ChartCalls :
        /\ threads[t].engine = threads[u].engine
        /\ threads[t].got["chart_generator"] # threads[u].got["chart_generator"]

\* two requests were given different engines
C27_TwoEngines ==
    \E t, u \in Callers : threads[t].engine # threads[u].engine


\* analyze_dataset has loaded and cleaned the uploaded file and gone on to
\* the analyzers
UploadAccepted ==
    /\ entry = "upload"
    /\ pc # "load"
    /\ raised # "ValueError"

\* the kinds of the quality insights made
QualityKinds == {insights[k].kind : k \in {i \in DOMAIN insights : insights[i].cat = "quality"}}

C28_EmptyColumnDropped ==
    /\ UploadAccepted
    /\ InsightsMade
    /\ Len(df.cols) < Len(file.frame.cols)


\* the columns the quality insights name for their high missing rate
NamedHighMissing ==
    UNION {Range(insights[k].names) :
              k \in {i \in DOMAIN insights : insights[i].cat = "quality"
                                              /\ insights[i].kind = "high_missing"}}

\* more than 20 % of column c is missing
HighMissing(c) == 5 * NullCount(df, c) > NumRows(df.rows)

\* missing_data[c] is the record of column c, whatever c is called
C29_ColumnRecordKept ==
    MissingAnalyzed =>
        \A c \in Columns(df) : statistics["missing_data"][c] = MissingOfColumn(df, c)

\* the quality insights name a column for its missing rate only if more than
\* 20 % of that column is missing, and so never the dataset-level summary
C29_SummaryNotTakenForColumn ==
    (InsightsMade /\ MissingAnalyzed) =>
        \A c \in NamedHighMissing : c \in Columns(df) /\ HighMissing(c)

\* C29: for every column c, whatever its name, missing_data[c] is c's own
\* record; the dataset-level summary stored in the same mapping never
\* overwrites the record of a column and is never taken for one by the
\* quality insights, also when a column is named 'summary'.
C29_SummaryKeptApart == C29_ColumnRecordKept /\ C29_SummaryNotTakenForColumn

\* a column named 'summary' with half of its values missing was analysed;
\* missing_data['summary'] is the dataset-level record and the quality
\* insights name no column
C29_Witness ==
    /\ InsightsMade
    /\ MissingAnalyzed
    /\ "summary" \in Columns(df)
    /\ NumRows(df.rows) = 2 * NullCount(df, "summary")
    /\ NullCount(df, "a") = 0
    /\ statistics["missing_data"]["summary"] = MissingSummary(df)
    /\ statistics["missing_data"]["summary"] # MissingOfColumn(df, "summary")
    /\ NamedHighMissing = {}

\* where no column is named 'summary' every column has its own record
C29_OtherNamesKept ==
    (MissingAnalyzed /\ "summary" \notin Columns(df)) =>
        \A c \in Columns(df) : statistics["missing_data"][c] = MissingOfColumn(df, c)


\* generate_summary has returned
SummaryMade == pc = "insights" \/ InsightsMade

\* C30: no division by zero is reachable in generate_summary or
\* generate_insights on any dataset: the missing percentage of a column
\* (by the row count), the overall missing percentage (by the number of
\* cells), the outlier percentage (by the non-null count), the diversity and
\* the dominance of a categorical column (by its count) and the coefficient
\* of variation (by |mean|) are each evaluated only with a positive divisor,
\* and an empty dataset returns five empty profiles without evaluating any.
C30_NoDivisionByZero ==
    /\ schema # NoSchema => \A d \in SummaryDivisions(df, schema) : d.by > 0
    /\ SummaryMade => \A d \in InsightDivisions(schema, statistics) : d.by > 0
    /\ MissingAnalyzed =>
          /\ statistics["missing_data"]["summary"].overall_missing_percentage[2]
                 = NumRows(df.rows) * Len(df.cols)
          /\ statistics["missing_data"]["summary"].overall_missing_percentage[2] > 0
          /\ \A c \in Columns(df) \ {"summary"} :
                /\ statistics["missing_data"][c].missing_percentage[2] = NumRows(df.rows)
                /\ statistics["missing_data"][c].missing_percentage[2] > 0
    /\ OutliersAnalyzed =>
          \A c \in DOMAIN statistics["outliers"] :
              /\ statistics["outliers"][c].outlier_percentage[2] = Count(df, c)
              /\ statistics["outliers"][c].outlier_percentage[2] > 0
    /\ (SummaryMade /\ (IsNone(df) \/ IsEmpty(df))) =>
          /\ statistics = EmptySummary
          /\ SummaryDivisions(df, schema) = {}
          /\ InsightDivisions(schema, statistics) = {}

\* the insights of a frame with columns and no rows were generated from five
\* empty profiles
C30_Witness ==
    /\ InsightsMade
    /\ Len(df.cols) > 0
    /\ NumRows(df.rows) = 0
    /\ statistics = EmptySummary
    /\ insights # <<>>

\* a frame with rows whose numeric column has no value, another whose mean
\* is 0: the outlier percentage of the first and the coefficient of variation
\* of the second are not evaluated
C30_DivisionsSkipped ==
    /\ InsightsMade
    /\ \/ \E c \in Range(schema.numeric_columns) :
             /\ Count(df, c) = 0
             /\ NumRows(df.rows) > 0
             /\ \A d \in SummaryDivisions(df, schema) : d.column # c \/ d.of = "missing_percentage"
       \/ \E c \in DOMAIN statistics["descriptive_stats"] :
             /\ c \in Range(schema.numeric_columns)
             /\ statistics["descriptive_stats"][c].mean[1] = 0
             /\ \A d \in InsightDivisions(schema, statistics) : d.column # c

\* all six kinds of division were evaluated on one dataset
C30_AllDivisions ==
    /\ InsightsMade
    /\ {d.of : d \in SummaryDivisions(df, schema) \cup InsightDivisions(schema, statistics)}
           = {"missing_percentage", "overall_missing_percentage", "outlier_percentage",
              "cv", "diversity", "dominance"}

====
